---------------------------- MODULE Spec2Model ----------------------------
(***************************************************************************)
(* A model of amazon_price_tracker.py: the price history and threshold     *)
(* evaluator (Product.update_from_scrape, Product.should_alert_new/used),  *)
(* the scheduled cycle (run_cycle) with its SQLAlchemy session, and the    *)
(* on-demand check (api_check).                                            *)
(*                                                                         *)
(* Prices are whole dollars, times are whole hours.  A percentage test     *)
(* (ref - p) / ref * 100 >= t is computed as (ref - p) * 100 >= t * ref,    *)
(* which is the same test for ref > 0.                                     *)
(***************************************************************************)
EXTENDS Integers, Sequences, FiniteSets, TLC

(***************************************************************************)
(* Python's None / SQL NULL.  Every number the program stores in a         *)
(* nullable column is > 0 here, so -1 is free to stand for NULL.           *)
(***************************************************************************)
None == -1

\* Python truthiness of an optional number: None and 0 are falsy.
Truthy(x) == x # None /\ x # 0

\* Python's  a or b  on optional numbers.
Or(a, b) == IF Truthy(a) THEN a ELSE b

ALERT_COOLDOWN_HOURS == 12
MAX_PRICE_HISTORY == 90
DEFAULT_EXPIRATION_DAYS == 35
DEFAULT_INTERVAL_MINUTES == 180
INTERVAL_JITTER_MINUTES == 45

(***************************************************************************)
(* Bounds of the model.                                                    *)
(***************************************************************************)
\* The clock stops advancing here.
MaxTime == 18
\* Calls of run_scraper in one behaviour.
MaxScrapes == 2

\* Hours the clock may advance by in one step.
TickSteps == {6}

Pids == {1}

VARIABLES
    db,         \* the products table: pid -> row
    settings,   \* the single Settings row
    now,        \* datetime.now(), in hours
    cyc,        \* run_cycle: its position, locals and session
    chk,        \* api_check in flight: pid -> "idle" | "scraping"
    alertLog,   \* history: the alerts run_cycle fired, in order
    outbox,     \* history: the batched e-mails handed to the Notifier
    scrapes,    \* history: number of run_scraper calls so far
    appended,   \* history: pid -> the samples add_price_point was given, in order
    call,       \* the last direct call of a function of the program, with its result
    rs,         \* run_recall_scan: its position and locals for the product in hand,
                \* with the requests issued (issued), the scores of the last
                \* response (scored), whether a score >= 85 was among them so
                \* far (high_seen) and the highest score of a CPSC recall so far
                \* (cpsc_seen) as history
    scan,       \* api_scan_recalls in flight: request -> its position and session
    mgr,        \* manager_loop and the run_cycle it has called: position, locals
                \* and session, with the products scraped in this cycle
                \* (attempted) and those that failed after their update
                \* (failed) as history
    shutdown_requested,  \* the threading.Event of that name
    pool        \* the ThreadPoolExecutor of api_check: the tasks submitted and
                \* not started (queue), those a worker is running (running)
                \* and the results of those that have returned (result)

vars == <<db, settings, now, cyc, chk, alertLog, outbox, scrapes, appended, call, rs,
          scan, mgr, shutdown_requested, pool>>

-----------------------------------------------------------------------------
(***************************************************************************)
(* Product rows.                                                           *)
(***************************************************************************)

\* A row as add_product / the order import create it, with the per-item
\* settings api_product_settings stores.
NewProduct(purchase, target, npct, ndol, upct, udol) ==
    [ title              |-> "Loading",
      screenshot_main    |-> None,
      target_price       |-> target,
      current_new_price  |-> None,
      current_used_price |-> None,
      prev_new_price     |-> 0,
      prev_used_price    |-> 0,
      lowest_new_price   |-> None,
      highest_new_price  |-> None,
      lowest_used_price  |-> None,
      highest_used_price |-> None,
      price_history      |-> << >>,
      last_checked       |-> None,
      last_alert_sent    |-> None,
      is_active          |-> TRUE,
      is_archived        |-> FALSE,
      alert_new_pct      |-> npct,
      alert_new_dollars  |-> ndol,
      alert_used_pct     |-> upct,
      alert_used_dollars |-> udol,
      purchase_price     |-> purchase,
      expires_at         |-> None,
      archived_at        |-> None,
      recall_status      |-> "none",
      recall_id          |-> None,
      recall_number      |-> None,
      recall_title       |-> None,
      recall_description |-> None,
      recall_url         |-> None,
      recall_hazard      |-> None,
      recall_remedy      |-> None,
      recall_date        |-> None,
      recall_consumer_contact |-> None,
      last_recall_check  |-> None ]

ProductFields == DOMAIN NewProduct(None, None, None, None, None, None)

\* Product.add_price_point: append a sample, keep the last MAX_PRICE_HISTORY.
LastN(h, n) == IF Len(h) > n THEN SubSeq(h, Len(h) - n + 1, Len(h)) ELSE h

add_price_point_keep_first(h, t, new_price, used_price) ==
    LET h2 == Append(h, [date |-> t, new |-> new_price, used |-> used_price])
    IN  IF Len(h2) > MAX_PRICE_HISTORY THEN SubSeq(h2, 1, MAX_PRICE_HISTORY) ELSE h2

add_price_point(h, t, new_price, used_price) ==
    LastN(Append(h, [date |-> t, new |-> new_price, used |-> used_price]),
          MAX_PRICE_HISTORY)

(***************************************************************************)
(* Scrape results: run_scraper's dict.  A title is "Loading" (a            *)
(* placeholder), or a real title of at least 10 characters.                *)
(***************************************************************************)
ScrapeResult(err, new, used, title, shot) ==
    [ error |-> err, new_price |-> new, used_price |-> used,
      title |-> title, screenshot_main |-> shot ]

NoTitle == "None"

\* 'Loading' in current or 'Order Item' in current or len(current) < 5
is_placeholder(title) == title = "Loading"

\* Product.update_from_scrape, on the row p at time t.
update_lowest_overwrite(lowest, price) == price

update_lowest(lowest, price) ==
    IF ~Truthy(lowest) \/ price < lowest THEN price ELSE lowest

update_highest(highest, price) ==
    IF ~Truthy(highest) \/ price > highest THEN price ELSE highest

\* is_placeholder or is_different (every scraped title has >= 10 characters)
title_accepted(p, data) ==
    data.title # NoTitle /\ (is_placeholder(p.title) \/ data.title # p.title)

update_title(p, data) ==
    IF title_accepted(p, data) THEN [p EXCEPT !.title = data.title] ELSE p

update_shot(p, data) ==
    IF Truthy(data.screenshot_main)
    THEN [p EXCEPT !.screenshot_main = data.screenshot_main] ELSE p

update_new_unshifted(p, data) ==
    IF Truthy(data.new_price)
    THEN [p EXCEPT !.current_new_price = data.new_price,
                   !.lowest_new_price  = update_lowest(p.lowest_new_price, data.new_price),
                   !.highest_new_price = update_highest(p.highest_new_price, data.new_price)]
    ELSE p

update_new(p, data) ==
    IF Truthy(data.new_price)
    THEN [p EXCEPT !.prev_new_price    = Or(p.current_new_price, data.new_price),
                   !.current_new_price = data.new_price,
                   !.lowest_new_price  = update_lowest(p.lowest_new_price, data.new_price),
                   !.highest_new_price = update_highest(p.highest_new_price, data.new_price)]
    ELSE p

update_used(p, data) ==
    IF Truthy(data.used_price)
    THEN [p EXCEPT !.prev_used_price    = Or(p.current_used_price, data.used_price),
                   !.current_used_price = data.used_price,
                   !.lowest_used_price  = update_lowest(p.lowest_used_price, data.used_price),
                   !.highest_used_price = update_highest(p.highest_used_price, data.used_price)]
    ELSE p

\* The local flag  updated  of update_from_scrape (its return value).
scrape_updates(p, data) ==
    \/ title_accepted(p, data)
    \/ Truthy(data.screenshot_main)
    \/ Truthy(data.new_price)
    \/ Truthy(data.used_price)

update_from_scrape_stamped(p, data, t) ==
    LET q == update_used(update_new(update_shot(update_title(p, data), data), data), data)
    IN  IF scrape_updates(p, data)
        THEN [q EXCEPT !.price_history =
                           add_price_point(p.price_history, t,
                                           data.new_price, data.used_price),
                       !.last_checked = t]
        ELSE [q EXCEPT !.last_checked = t]

update_from_scrape(p, data, t) ==
    LET q == update_used(update_new(update_shot(update_title(p, data), data), data), data)
    IN  IF scrape_updates(p, data)
        THEN [q EXCEPT !.price_history =
                           add_price_point(p.price_history, t,
                                           data.new_price, data.used_price),
                       !.last_checked = t]
        ELSE q

(***************************************************************************)
(* Product.should_alert_new / should_alert_used.                           *)
(***************************************************************************)
\* The threshold test shared by both: pct_threshold / dollars_threshold are
\* the global value if given (is not None), else the per-item value.
drop_exceeds_both(ref_price, price, global_pct, global_dollars, item_pct, item_dollars) ==
    LET pct_threshold     == IF global_pct # None THEN global_pct ELSE item_pct
        dollars_threshold == IF global_dollars # None THEN global_dollars ELSE item_dollars
    IN  /\ Truthy(pct_threshold)
           /\ (ref_price - price) * 100 >= pct_threshold * ref_price
        /\ Truthy(dollars_threshold)
           /\ ref_price - price >= dollars_threshold

drop_exceeds(ref_price, price, global_pct, global_dollars, item_pct, item_dollars) ==
    LET pct_threshold     == IF global_pct # None THEN global_pct ELSE item_pct
        dollars_threshold == IF global_dollars # None THEN global_dollars ELSE item_dollars
    IN  \/ Truthy(pct_threshold)
           /\ (ref_price - price) * 100 >= pct_threshold * ref_price
        \/ Truthy(dollars_threshold)
           /\ ref_price - price >= dollars_threshold

should_alert_new_no_baseline(p, new_price, global_pct, global_dollars) ==
    LET ref_price == Or(Or(p.purchase_price, p.highest_new_price), p.prev_new_price)
    IN  /\ Truthy(new_price)
        /\ Truthy(ref_price) /\ ref_price > 0
        /\ drop_exceeds(ref_price, new_price, global_pct, global_dollars,
                        p.alert_new_pct, p.alert_new_dollars)

should_alert_new(p, new_price, global_pct, global_dollars) ==
    LET ref_price == Or(Or(p.purchase_price, p.highest_new_price), p.prev_new_price)
    IN  /\ Truthy(new_price)
        /\ p.last_checked # None
        /\ Truthy(ref_price) /\ ref_price > 0
        /\ drop_exceeds(ref_price, new_price, global_pct, global_dollars,
                        p.alert_new_pct, p.alert_new_dollars)

should_alert_used_purchase_first(p, used_price, global_pct, global_dollars) ==
    LET ref_price == Or(Or(p.purchase_price, p.highest_used_price), p.prev_used_price)
    IN  /\ Truthy(used_price)
        /\ p.last_checked # None
        /\ Truthy(ref_price) /\ ref_price > 0
        /\ drop_exceeds(ref_price, used_price, global_pct, global_dollars,
                        p.alert_used_pct, p.alert_used_dollars)

should_alert_used(p, used_price, global_pct, global_dollars) ==
    LET ref_price == Or(Or(p.highest_used_price, p.purchase_price), p.prev_used_price)
    IN  /\ Truthy(used_price)
        /\ p.last_checked # None
        /\ Truthy(ref_price) /\ ref_price > 0
        /\ drop_exceeds(ref_price, used_price, global_pct, global_dollars,
                        p.alert_used_pct, p.alert_used_dollars)

-----------------------------------------------------------------------------
(***************************************************************************)
(* The scheduled cycle, run_cycle.  Its SQLAlchemy session holds, for each *)
(* product it has loaded and not expired (cyc.live), the values loaded     *)
(* (cyc.base) and the current attribute values (cyc.obj).  A commit writes *)
(* the attributes that differ from the loaded values and expires every     *)
(* object; the next attribute access reloads the row.                      *)
(***************************************************************************)
\* The history variable appended: update_from_scrape on row, when it updates,
\* hands add_price_point one sample.
Sampled(log, p, row, data, t) ==
    IF scrape_updates(row, data)
    THEN [log EXCEPT ![p] = Append(@, [date |-> t, new |-> data.new_price,
                                       used |-> data.used_price])]
    ELSE log

RECURSIVE SortedSeq(_)
SortedSeq(S) ==
    IF S = {} THEN << >>
    ELSE LET m == CHOOSE x \in S : \A y \in S : x <= y
         IN  <<m>> \o SortedSeq(S \ {m})

\* session.commit(): UPDATE the changed columns of every live object.
Flush(table, base, obj, live) ==
    [p \in Pids |->
        IF p \in live
        THEN [f \in ProductFields |->
                 IF obj[p][f] # base[p][f] THEN obj[p][f] ELSE table[p][f]]
        ELSE table[p]]

\* The alerts list run_cycle builds for the updated product and the scrape.
TargetHit_below(p, price) ==
    Truthy(price) /\ Truthy(p.target_price) /\ price < p.target_price

TargetHit(p, price) ==
    Truthy(price) /\ Truthy(p.target_price) /\ price <= p.target_price

Alerts(p, data, g) ==
    {k \in {"target_new", "drop_new", "target_used", "drop_used"} :
        \/ k = "target_new"  /\ TargetHit(p, data.new_price)
        \/ k = "drop_new"    /\ should_alert_new(p, data.new_price, g.new_pct, g.new_dollars)
        \/ k = "target_used" /\ TargetHit(p, data.used_price)
        \/ k = "drop_used"   /\ should_alert_used(p, data.used_price, g.used_pct, g.used_dollars)}

\* not prod.last_alert_sent or now - prod.last_alert_sent > 12 hours
cooldown_ignored(last_alert_sent, t) == TRUE

cooldown_over(last_alert_sent, t) ==
    last_alert_sent = None \/ t - last_alert_sent > ALERT_COOLDOWN_HOURS

\* An object that is not in the session has no attribute values to speak of.
Detached == [p \in Pids |-> NewProduct(None, None, None, None, None, None)]

\* Whether a fired alert stamps last_alert_sent: always when it is collected
\* for the batched e-mail, else only if send_alert_email returned True.
stamps_alert_always(batch_emails, sent) == TRUE

stamps_alert(batch_emails, sent) == batch_emails \/ sent

IdleCycle ==
    [ pc |-> "idle", queue |-> << >>, live |-> {},
      base |-> Detached,
      obj  |-> Detached,
      g    |-> [new_pct |-> None, new_dollars |-> None,
                used_pct |-> None, used_dollars |-> None],
      batch_emails |-> FALSE, batched_alerts |-> << >> ]

\* run_cycle up to the product loop: read the settings, query the products.
CycleStart ==
    /\ cyc.pc = "idle"
    /\ scrapes < MaxScrapes
    /\ LET products == {p \in Pids : db[p].is_active /\ ~db[p].is_archived}
           use_global == settings.global_alerts_enabled
       IN  /\ products # {}
           /\ cyc' = [ pc |-> "loop", queue |-> SortedSeq(products),
                       live |-> products,
                       base |-> [p \in Pids |-> IF p \in products THEN db[p] ELSE Detached[p]],
                       obj  |-> [p \in Pids |-> IF p \in products THEN db[p] ELSE Detached[p]],
                       g |-> [new_pct      |-> IF use_global THEN settings.global_new_pct ELSE None,
                              new_dollars  |-> IF use_global THEN settings.global_new_dollars ELSE None,
                              used_pct     |-> IF use_global THEN settings.global_used_pct ELSE None,
                              used_dollars |-> IF use_global THEN settings.global_used_dollars ELSE None],
                       batch_emails |-> settings.batch_email_alerts,
                       batched_alerts |-> << >> ]
    /\ UNCHANGED <<db, settings, now, chk, alertLog, outbox, scrapes, appended, call, rs,
                 scan, mgr, shutdown_requested, pool>>

\* The loop reaches a product: prod.asin reloads an expired object, then
\* run_scraper is called.
CycleScrape ==
    /\ cyc.pc = "loop" /\ cyc.queue # << >>
    /\ scrapes < MaxScrapes
    /\ LET p == Head(cyc.queue)
       IN  cyc' = IF p \in cyc.live
                  THEN [cyc EXCEPT !.pc = "scraping"]
                  ELSE [cyc EXCEPT !.pc = "scraping", !.live = @ \cup {p},
                                   !.base[p] = db[p], !.obj[p] = db[p]]
    /\ scrapes' = scrapes + 1
    /\ UNCHANGED <<db, settings, now, chk, alertLog, outbox, appended, call, rs,
                 scan, mgr, shutdown_requested, pool>>

\* run_scraper returned an error: nothing is applied, nothing is committed.
CycleScrapeError(data) ==
    /\ cyc.pc = "scraping"
    /\ Truthy(data.error)
    /\ cyc' = [cyc EXCEPT !.pc = "loop", !.queue = Tail(@)]
    /\ UNCHANGED <<db, settings, now, chk, alertLog, outbox, scrapes, appended, call, rs,
                 scan, mgr, shutdown_requested, pool>>

\* run_scraper returned data: update, evaluate the alerts, send or collect,
\* commit.  sent is what send_alert_email returns in individual mode.
CycleApply(data, sent) ==
    /\ cyc.pc = "scraping"
    /\ ~Truthy(data.error)
    /\ LET p        == Head(cyc.queue)
           prod     == update_from_scrape(cyc.obj[p], data, now)
           alerts   == Alerts(prod, data, cyc.g)
           cooled   == cooldown_over(prod.last_alert_sent, now)
           fire     == alerts # {} /\ cooled
           stamp    == fire /\ stamps_alert(cyc.batch_emails, sent)
           prod2    == IF stamp THEN [prod EXCEPT !.last_alert_sent = now] ELSE prod
           obj2     == [cyc.obj EXCEPT ![p] = prod2]
       IN  /\ (sent = FALSE \/ (fire /\ ~cyc.batch_emails))
           /\ db' = Flush(db, cyc.base, obj2, cyc.live)
           /\ cyc' = [cyc EXCEPT !.pc = "loop", !.queue = Tail(@), !.live = {},
                                 !.base = Detached, !.obj = Detached,
                                 !.batched_alerts =
                                     IF fire /\ cyc.batch_emails THEN Append(@, p) ELSE @]
           /\ alertLog' =
                 IF alerts = {} THEN alertLog
                 ELSE Append(alertLog,
                        [ pid |-> p, at |-> now, kinds |-> alerts,
                          baseline |-> cyc.obj[p].last_checked = None,
                          cooled |-> cooled,
                          mode |-> IF cyc.batch_emails THEN "batch" ELSE "individual",
                          sent |-> sent,
                          stamped |-> stamp ])
           /\ appended' = Sampled(appended, p, cyc.obj[p], data, now)
    /\ UNCHANGED <<settings, now, chk, outbox, scrapes, call, rs,
                 scan, mgr, shutdown_requested, pool>>

\* After the loop: send the batched e-mail, commit, close the session.
CycleEnd(sent) ==
    /\ cyc.pc = "loop" /\ cyc.queue = << >>
    /\ LET batch == cyc.batched_alerts # << >> /\ cyc.batch_emails
       IN  /\ (sent = FALSE \/ batch)
           /\ outbox' = IF batch
                         THEN Append(outbox, [at |-> now, pids |-> cyc.batched_alerts,
                                              sent |-> sent])
                         ELSE outbox
    /\ db' = Flush(db, cyc.base, cyc.obj, cyc.live)
    /\ cyc' = IdleCycle
    /\ UNCHANGED <<settings, now, chk, alertLog, scrapes, appended, call, rs,
                 scan, mgr, shutdown_requested, pool>>

(***************************************************************************)
(* The on-demand check, api_check: a first session reads the asin, the     *)
(* scrape runs on the executor, a second session loads the product,        *)
(* applies the result and commits.                                         *)
(***************************************************************************)
ApiCheckStart(p) ==
    /\ chk[p] = "idle"
    /\ scrapes < MaxScrapes
    /\ chk' = [chk EXCEPT ![p] = "scraping"]
    /\ scrapes' = scrapes + 1
    /\ UNCHANGED <<db, settings, now, cyc, alertLog, outbox, appended, call, rs,
                 scan, mgr, shutdown_requested, pool>>

\* error and no price: 'success': False, nothing applied.
ApiCheckFailed(p, data) ==
    /\ chk[p] = "scraping"
    /\ Truthy(data.error) /\ ~Truthy(data.new_price) /\ ~Truthy(data.used_price)
    /\ chk' = [chk EXCEPT ![p] = "idle"]
    /\ UNCHANGED <<db, settings, now, cyc, alertLog, outbox, scrapes, appended, call, rs,
                 scan, mgr, shutdown_requested, pool>>

ApiCheckApply(p, data) ==
    /\ chk[p] = "scraping"
    /\ ~(Truthy(data.error) /\ ~Truthy(data.new_price) /\ ~Truthy(data.used_price))
    /\ db' = [db EXCEPT ![p] = update_from_scrape(db[p], data, now)]
    /\ appended' = Sampled(appended, p, db[p], data, now)
    /\ chk' = [chk EXCEPT ![p] = "idle"]
    /\ UNCHANGED <<settings, now, cyc, alertLog, outbox, scrapes, call, rs,
                 scan, mgr, shutdown_requested, pool>>

\* Time passes.
Tick(d) ==
    /\ now + d <= MaxTime
    /\ now' = now + d
    /\ UNCHANGED <<db, settings, cyc, chk, alertLog, outbox, scrapes, appended, call, rs,
                 scan, mgr, shutdown_requested, pool>>

-----------------------------------------------------------------------------
(***************************************************************************)
(* Text.  A string is a sequence of tokens: a token is a maximal run of    *)
(* letters and digits, with in `glue` whether a hyphen (rather than white  *)
(* space) joins it to the token before it: "Grill E-335" is                *)
(* <<W("Grill"), W("E"), H("335")>>, and "" is << >>.  Lexicon gives, for  *)
(* each token of the model's texts, what the program's string operations   *)
(* make of it, and a token carries that along with its spelling `t`; len() *)
(* of a token is Len.  In the texts of the model no                        *)
(* string that is searched for (a model code, a UPC, 'amazon') begins or   *)
(* ends inside a token of the text searched, so a substring test is a test *)
(* on whole tokens.                                                        *)
(***************************************************************************)
\* lower: str.lower(); first: the class of the first character; digit / alpha:
\* some character is a digit / a letter; caps: ^[A-Z0-9]{2,}$ matches;
\* asin: B[0-9][A-Z0-9]{8} matches.
Word(lower, first, digit, alpha, caps, asin) ==
    [lower |-> lower, first |-> first, digit |-> digit, alpha |-> alpha,
     caps |-> caps, asin |-> asin]

Capitalised(lower) == Word(lower, "upper", FALSE, TRUE, FALSE, FALSE)
Lowercase(lower) == Word(lower, "lower", FALSE, TRUE, FALSE, FALSE)
Digits(s) == Word(s, "digit", TRUE, FALSE, TRUE, FALSE)

Lexicon ==
    [t \in {"Weber", "Genesis", "Gas", "Grill", "Spirit", "Model", "Kettle",
            "Amazon", "Home", "Depot", "Stephen", "Recall", "Fire", "Loading",
            "The", "Pro", "Order", "Item"} |->
        Capitalised(CASE t = "Weber" -> "weber" [] t = "Genesis" -> "genesis"
               [] t = "Gas" -> "gas" [] t = "Grill" -> "grill"
               [] t = "Spirit" -> "spirit" [] t = "Model" -> "model"
               [] t = "Kettle" -> "kettle" [] t = "Amazon" -> "amazon"
               [] t = "Home" -> "home" [] t = "Depot" -> "depot"
               [] t = "Stephen" -> "stephen" [] t = "Recall" -> "recall"
               [] t = "Fire" -> "fire" [] t = "Loading" -> "loading"
               [] t = "The" -> "the" [] t = "Pro" -> "pro"
               [] t = "Order" -> "order" [] t = "Item" -> "item")]
    @@ [t \in {"gas", "grill", "hazard", "from"} |-> Lowercase(t)]
    @@ [t \in {"335", "210"} |-> Digits(t)]
    @@ ("II" :> Word("ii", "upper", FALSE, TRUE, TRUE, FALSE))
    @@ ("E" :> Word("e", "upper", FALSE, TRUE, FALSE, FALSE))
    @@ ("B0ABCDEFGH" :> Word("b0abcdefgh", "upper", TRUE, TRUE, TRUE, TRUE))

\* A token after white space, a token after a hyphen.
W(s) == [t |-> s, glue |-> FALSE] @@ Lexicon[s]
H(s) == [t |-> s, glue |-> TRUE] @@ Lexicon[s]

Lower(tok) == tok.lower

\* dict.get(key, default)
Get(d, key, default) == IF key \in DOMAIN d THEN d[key] ELSE default

Min(a, b) == IF a < b THEN a ELSE b
MaxOf(S) == CHOOSE m \in S : \A n \in S : n <= m

\* len() of a string: its tokens and the separators between them.
RECURSIVE TextLen(_)
TextLen(text) ==
    IF text = << >> THEN 0
    ELSE Len(text[1].t) + (IF Len(text) > 1 THEN 1 ELSE 0) + TextLen(Tail(text))

\*  needle in hay  (fold: both lowered first).
Occurs(needle, hay, fold) ==
    \E k \in 0 .. (Len(hay) - Len(needle)) :
        \A i \in 1 .. Len(needle) :
            /\ IF fold THEN Lower(needle[i]) = Lower(hay[k + i])
                       ELSE needle[i].t = hay[k + i].t
            /\ i > 1 => needle[i].glue = hay[k + i].glue

\* re.findall(r'\b[a-z]{4,}\b', text.lower())
LongWords(text) ==
    {Lower(text[i]) : i \in {j \in DOMAIN text :
        ~text[j].digit /\ Len(text[j].t) >= 4}}

common_short ==
    {"the","and","for","but","not","are","was","has","its","you","can","may","all",
     "any","who","why","how","did","get","got","had","him","her","his","our","own",
     "new","old","one","two","big","few","set","use","say","see","try","day","way",
     "end","yet","now","let","put","run","cut","off","ask","add","men","per"}

\* The words of 2 or 3 characters that hold a digit, or are capitalised and
\* not a common word.
ShortWords(text) ==
    {Lower(text[i]) : i \in {j \in DOMAIN text :
        /\ Len(text[j].t) \in {2, 3}
        /\ \/ text[j].digit
           \/ /\ text[j].first = "upper"
              /\ Lower(text[j]) \notin common_short}}

generic_words ==
    {"product","item","model","number","about","units","sold","stores",
     "between","through","from","were","with","that","this","have","been",
     "consumers","should","contact","company","free","replacement","refund",
     "risk","injury","hazard","recall","recalled","due","poses","posing",
     "also","each","made","make","more","most","much","only","over","some",
     "such","than","them","then","they","very","when","will","your","used",
     "like","does","just","into","back","after","could","would","which",
     "first","other","where","still","every","under","while","these","being",
     "there","those","might","comes","including","contains","found"}

stop_words ==
    {"the","a","an","and","or","for","with","in","on","of","to","by","from","is","it",
     "that","this","be","at","as","pack","set","count","piece","inch","inches","ft",
     "oz","lb","lbs","ml","size","color","new","edition","version","updated","latest",
     "prime","brand","item","best","seller","great",
     "value","premium","professional","ultra","super","pro","plus","max","mini","deluxe"}

(***************************************************************************)
(* extract_recall_keywords.                                                *)
(***************************************************************************)
\* re.sub(r'\b(Loading|Order Item|B[0-9][A-Z0-9]{8})\b', '', title, flags=re.I);
\* the punctuation that the second re.sub turns into spaces separates tokens
\* already.
Cleaned(title) ==
    LET Is(i, lower) == i \in DOMAIN title /\ Lower(title[i]) = lower
        Dropped(i) ==
            \/ Is(i, "loading")
            \/ title[i].asin
            \/ Is(i, "order") /\ Is(i + 1, "item") /\ ~title[i + 1].glue
            \/ Is(i, "item") /\ Is(i - 1, "order") /\ ~title[i].glue
        RECURSIVE Kept(_)
        Kept(i) == IF i > Len(title) THEN << >>
                   ELSE (IF Dropped(i) THEN << >> ELSE <<title[i]>>) \o Kept(i + 1)
    IN  Kept(1)

KeywordWords(title) ==
    SelectSeq(Cleaned(title), LAMBDA tok :
        /\ Lower(tok) \notin stop_words
        /\ Len(tok.t) > 1
        /\ tok.alpha)

TypeWords(words) ==
    SelectSeq(Tail(words), LAMBDA tok :
        /\ Len(tok.t) > 3
        /\ tok.first # "digit"
        /\ ~tok.caps)

FirstN(s, n) == SubSeq(s, 1, Min(n, Len(s)))

Spelled(words) == [i \in DOMAIN words |-> words[i].t]

NoKeywords == [brand |-> "", product_type |-> << >>, queries |-> << >>]

extract_recall_keywords(title) ==
    IF title = << >> \/ KeywordWords(title) = << >> THEN NoKeywords
    ELSE LET words == KeywordWords(title)
             brand == words[1]
             type_words == TypeWords(words)
         IN  [brand |-> Lower(brand),
              product_type |-> [i \in DOMAIN FirstN(type_words, 3) |->
                                    Lower(type_words[i])],
              queries |->
                 IF type_words = << >>
                 THEN << [query |-> <<brand.t>>, weight |-> 1] >>
                 ELSE << [query |-> <<brand.t>> \o Spelled(FirstN(type_words, 2)),
                          weight |-> 3],
                         [query |-> <<brand.t>>, weight |-> 1],
                         [query |-> <<brand.t, type_words[1].t>>, weight |-> 2] >>]

(***************************************************************************)
(* score_recall_match.                                                     *)
(***************************************************************************)
title_words(product_title) == LongWords(product_title) \cup ShortWords(product_title)

product_words(product_title) ==
    (title_words(product_title) \ generic_words)
        \ {extract_recall_keywords(product_title).brand}

\* The words of a recall text, by the same extraction.
recall_words(text) == ((LongWords(text) \ generic_words) \cup ShortWords(text)) \ generic_words

\* re.search(r'\b' + re.escape(brand) + r'\b', text)
BrandIn(brand, text) == \E i \in DOMAIN text : Lower(text[i]) = brand

Flat(parts) ==
    LET RECURSIVE Join(_)
        Join(i) == IF i > Len(parts) THEN << >> ELSE parts[i] \o Join(i + 1)
    IN  Join(1)

Names(list) == [i \in DOMAIN list |-> Get(list[i], "Name", << >>)]

cpsc_recall_text(recall_data) ==
    LET Products == Get(recall_data, "Products", << >>)
    IN  Flat([i \in DOMAIN Products |->
                Get(Products[i], "Name", << >>) \o Get(Products[i], "Description", << >>)])
        \o Get(recall_data, "Title", << >>)
        \o Flat(Names(Get(recall_data, "Manufacturers", << >>)))

cpsc_brand_found(product_title, recall_data) ==
    LET brand == extract_recall_keywords(product_title).brand
    IN  brand # "" /\ Len(brand) >= 2 /\ BrandIn(brand, cpsc_recall_text(recall_data))

overlap_score(overlap) ==
    IF Cardinality(overlap) >= 2 THEN Min(Cardinality(overlap) * 12, 40) ELSE 0

model_score(model, product_title) ==
    IF model # << >> /\ TextLen(model) >= 3 /\ Occurs(model, product_title, TRUE)
    THEN 25 ELSE 0

this_product_score(product_title, prod) ==
    LET prod_words == recall_words(Get(prod, "Name", << >>)
                                   \o Get(prod, "Description", << >>))
    IN  overlap_score(product_words(product_title) \cap prod_words)
        + model_score(Get(prod, "Model", << >>), product_title)

best_product_score(product_title, recall_data) ==
    LET Products == Get(recall_data, "Products", << >>)
    IN  MaxOf({0} \cup {this_product_score(product_title, Products[i]) :
                            i \in DOMAIN Products})

title_overlap_score(product_title, recall_data) ==
    LET title_overlap == product_words(product_title)
            \cap (LongWords(Get(recall_data, "Title", << >>)) \ generic_words)
    IN  IF Cardinality(title_overlap) >= 2
        THEN Min(Cardinality(title_overlap) * 8, 20) ELSE 0

\* 'amazon' in name.lower()
retailer_bonus(recall_data) ==
    LET Retailers == Names(Get(recall_data, "Retailers", << >>))
    IN  5 * Cardinality({i \in DOMAIN Retailers :
                            \E j \in DOMAIN Retailers[i] :
                                Lower(Retailers[i][j]) = "amazon"})

upc_match_never(product_title, recall_data) == FALSE

upc_match(product_title, recall_data) ==
    LET ProductUPCs == Get(recall_data, "ProductUPCs", << >>)
    IN  \E i \in DOMAIN ProductUPCs :
            LET upc_val == Get(ProductUPCs[i], "UPC", << >>)
            IN  upc_val # << >> /\ Occurs(upc_val, product_title, FALSE)

\* HARD RULE: if the brand doesn't match, cap the score at 15.
cap_brand_off(score, brand_found) == score

cap_brand(score, brand_found) ==
    IF ~brand_found THEN Min(score, 15) ELSE score

\* HARD RULE: if the product type doesn't overlap, cap the score at 30.
cap_product_type_off(score, product_type_match) == score

cap_product_type(score, product_type_match) ==
    IF ~product_type_match THEN Min(score, 30) ELSE score

cpsc_product_type_match(product_title, recall_data) ==
    best_product_score(product_title, recall_data) > 0

cpsc_score(product_title, recall_data) ==
    LET brand_found == cpsc_brand_found(product_title, recall_data)
        summed == (IF brand_found THEN 30 ELSE 0)
                  + best_product_score(product_title, recall_data)
                  + title_overlap_score(product_title, recall_data)
                  + retailer_bonus(recall_data)
        score == IF upc_match(product_title, recall_data) THEN 100 ELSE summed
    IN  cap_product_type(cap_brand(score, brand_found),
                         cpsc_product_type_match(product_title, recall_data))

\* brand == w.strip(',-()') for one of the first three words of
\* product_desc.split(): a word is what white space separates.
brand_leads_desc(brand, product_desc) ==
    \E i \in DOMAIN product_desc :
        /\ Cardinality({j \in 1 .. i : j = 1 \/ ~product_desc[j].glue}) <= 3
        /\ i = 1 \/ ~product_desc[i].glue
        /\ i = Len(product_desc) \/ ~product_desc[i + 1].glue
        /\ Lower(product_desc[i]) = brand

fda_brand_found(product_title, recall_data) ==
    LET brand == extract_recall_keywords(product_title).brand
    IN  /\ brand # "" /\ Len(brand) >= 2
        /\ \/ BrandIn(brand, Get(recall_data, "recalling_firm", << >>))
           \/ brand_leads_desc(brand, Get(recall_data, "product_description", << >>))

fda_overlap(product_title, recall_data) ==
    product_words(product_title)
        \cap recall_words(Get(recall_data, "product_description", << >>))

fda_product_type_match(product_title, recall_data) ==
    Cardinality(fda_overlap(product_title, recall_data)) >= 2

\* The weak signal without its cap of 10.
reason_score_uncapped(product_title, recall_data) ==
    LET reason_overlap == product_words(product_title)
            \cap (LongWords(Get(recall_data, "reason_for_recall", << >>)) \ generic_words)
    IN  IF reason_overlap # {} THEN Cardinality(reason_overlap) * 3 ELSE 0

reason_score(product_title, recall_data) ==
    LET reason_overlap == product_words(product_title)
            \cap (LongWords(Get(recall_data, "reason_for_recall", << >>)) \ generic_words)
    IN  IF reason_overlap # {} THEN Min(Cardinality(reason_overlap) * 3, 10) ELSE 0

fda_score(product_title, recall_data) ==
    LET brand_found == fda_brand_found(product_title, recall_data)
        score == (IF brand_found THEN 30 ELSE 0)
                 + overlap_score(fda_overlap(product_title, recall_data))
                 + reason_score(product_title, recall_data)
    IN  cap_product_type(cap_brand(score, brand_found),
                         fda_product_type_match(product_title, recall_data))

\* Python's None and {} for a recall: both are falsy.
NoRecall == << >>

score_recall_match(product_title, recall_data, source) ==
    IF product_title = << >> \/ recall_data = NoRecall THEN 0
    ELSE Min(CASE source = "cpsc" -> cpsc_score(product_title, recall_data)
               [] source = "fda" -> fda_score(product_title, recall_data)
               [] OTHER -> 0,
             100)

\* The two gates of score_recall_match, as it computes them.
brand_found(product_title, recall_data, source) ==
    CASE source = "cpsc" -> cpsc_brand_found(product_title, recall_data)
      [] source = "fda" -> fda_brand_found(product_title, recall_data)
      [] OTHER -> FALSE

product_type_match(product_title, recall_data, source) ==
    CASE source = "cpsc" -> cpsc_product_type_match(product_title, recall_data)
      [] source = "fda" -> fda_product_type_match(product_title, recall_data)
      [] OTHER -> FALSE

(***************************************************************************)
(* check_cpsc_recalls_for_product, check_fda_recalls_for_product and the   *)
(* part of run_recall_scan that calls them for one product.  A response is *)
(* its status code and the recalls the loop went through.  An exception    *)
(* (requests.get or resp.json() raising, a malformed entry after the ones  *)
(* listed) keeps what the loop did so far and goes on to the next request, *)
(* as a response that ends there does.                                     *)
(***************************************************************************)
MIN_SCORE == 55
STRONG_SCORE == 85

fda_endpoints == <<"food", "drug", "device">>

accepted_unscored(best_match, best_score, min_score) == best_match # NoRecall

accepted(best_match, best_score, min_score) ==
    best_match # NoRecall /\ best_score >= min_score

strong_match_never(best_score) == FALSE

\* The short-circuit: a very strong match stops the search.
strong_match(best_score) == best_score >= STRONG_SCORE

\* if score > best_score, against a  >=  that lets a later candidate of the
\* same score take the place of the one found.
replaces_on_tie(score, best_score) == score >= best_score

replaces(score, best_score) == score > best_score

\* for recall in recalls: the loop of check_cpsc_recalls_for_product, with
\* its break, from recall i on; scores[i] is the score of recalls[i], and n
\* counts the recalls the loop has scored.
RECURSIVE cpsc_loop(_, _, _, _, _)
cpsc_loop(recalls, scores, i, best_match, best_score) ==
    IF i > Len(recalls) THEN
        [best_match |-> best_match, best_score |-> best_score, n |-> i - 1]
    ELSE IF replaces(scores[i], best_score) THEN
        IF strong_match(scores[i])
        THEN [best_match |-> recalls[i], best_score |-> scores[i], n |-> i]
        ELSE cpsc_loop(recalls, scores, i + 1, recalls[i], scores[i])
    ELSE
        IF strong_match(best_score)
        THEN [best_match |-> best_match, best_score |-> best_score, n |-> i]
        ELSE cpsc_loop(recalls, scores, i + 1, best_match, best_score)

\* for recall in results: the loop of check_fda_recalls_for_product.
RECURSIVE fda_loop(_, _, _, _, _, _)
fda_loop(results, scores, i, endpoint, best_match, best_score) ==
    IF i > Len(results) THEN
        [best_match |-> best_match, best_score |-> best_score, n |-> i - 1]
    ELSE IF replaces(scores[i], best_score) THEN
        fda_loop(results, scores, i + 1, endpoint,
                 ("_fda_endpoint" :> endpoint) @@ results[i], scores[i])
    ELSE
        fda_loop(results, scores, i + 1, endpoint, best_match, best_score)

\* The history of a response: the recalls the loop scored, with their scores.
Scored(recalls, scores, n, source) ==
    [i \in 1 .. n |-> [recall |-> recalls[i], source |-> source, score |-> scores[i]]]

IdleScan ==
    [pc |-> "idle", title |-> << >>, keywords |-> << >>, qi |-> 1, ei |-> 1,
     best_match |-> NoRecall, best_score |-> 0,
     result |-> NoRecall, source |-> "none",
     issued |-> << >>, high_seen |-> FALSE, scored |-> << >>, cpsc_seen |-> 0,
     failed |-> 0, fda_seen |-> 0]

HighSeen(scores) == \E i \in DOMAIN scores : scores[i] >= 85

\* The highest score among the first n of a response and the ones before.
BestSeen(seen, scores, n) == MaxOf({seen} \cup {scores[i] : i \in 1 .. n})

-----------------------------------------------------------------------------
(***************************************************************************)
(* The recall columns of a product and the handlers that write them: the   *)
(* scan of api_scan_recalls and of run_cycle, and api_dismiss_recall.      *)
(* run_recall_scan is taken by its result: for each product handed to it,  *)
(* a match (the normalized recall data) or none.                           *)
(***************************************************************************)
RecallColumns ==
    {"recall_id", "recall_number", "recall_title", "recall_description",
     "recall_url", "recall_hazard", "recall_remedy", "recall_date",
     "recall_consumer_contact"}

\* results[prod_id] of run_recall_scan for the recall numbered k.
RecallData(k) == [c \in RecallColumns |-> k]

\* p.title and 'Loading' not in (p.title or '')
has_title(title) == title # "" /\ title # "Loading"

unsettled(recall_status) == recall_status \notin {"matched", "dismissed"}

\* to_check of api_scan_recalls and of run_cycle, over the rows loaded.
products_to_check(rows) ==
    {p \in DOMAIN rows :
        has_title(rows[p].title) /\ unsettled(rows[p].recall_status)}

apply_recall_unstamped(product, recall_data, t) ==
    [f \in DOMAIN product |->
        IF f = "recall_status" THEN "matched"
        ELSE IF f \in RecallColumns THEN recall_data[f]
        ELSE product[f]]

apply_recall_to_product(product, recall_data, t) ==
    [f \in DOMAIN product |->
        IF f = "recall_status" THEN "matched"
        ELSE IF f \in RecallColumns THEN recall_data[f]
        ELSE IF f = "last_recall_check" THEN t
        ELSE product[f]]

\* Mark checked products with no match.
mark_checked(prod, t) ==
    IF unsettled(prod.recall_status)
    THEN [prod EXCEPT !.recall_status = "none", !.last_recall_check = t]
    ELSE prod

\* The two loops that follow run_recall_scan, on the objects of the session.
apply_results(obj, to_check, results, t) ==
    [p \in DOMAIN obj |->
        IF p \in DOMAIN results THEN apply_recall_to_product(obj[p], results[p], t)
        ELSE IF p \in to_check THEN mark_checked(obj[p], t)
        ELSE obj[p]]

\* api_dismiss_recall on a row: re-check if dismissed, else dismiss.
recheck(p) ==
    [f \in DOMAIN p |->
        IF f = "recall_status" THEN "none"
        ELSE IF f \in RecallColumns \cup {"last_recall_check"} THEN None
        ELSE p[f]]

dismiss_recall(p) ==
    IF p.recall_status = "dismissed" THEN recheck(p)
    ELSE [p EXCEPT !.recall_status = "dismissed"]

\* session.commit() for a session whose loaded values are base and whose
\* attribute values are obj: UPDATE the changed columns of each object.
Merged(stored, loaded, current) ==
    [f \in DOMAIN stored |-> IF current[f] # loaded[f] THEN current[f] ELSE stored[f]]

Commit(table, base, obj) ==
    [p \in DOMAIN table |->
        IF p \in DOMAIN obj THEN Merged(table[p], base[p], obj[p]) ELSE table[p]]

\* A session with no object loaded (new, or after a commit has expired them).
NoObjects == << >>

Requests == {1, 2}

NoScan == [pc |-> "idle", base |-> NoObjects, obj |-> NoObjects, to_check |-> {}]

NoScans == [r \in Requests |-> NoScan]

\* The executor with nothing submitted.
IdlePool == [queue |-> << >>, running |-> {}, result |-> << >>]

\* manager_loop before a cycle: no session, and of the cycle to come the
\* products handed to run_recall_scan, archived, queried, scraped and failed.
IdleManager ==
    [pc |-> "top", cycles |-> 0, base |-> NoObjects, obj |-> NoObjects,
     to_check |-> {}, archived |-> {}, products |-> {},
     queue |-> << >>, attempted |-> << >>, failed |-> {}, batched_alerts |-> << >>]

-----------------------------------------------------------------------------
(***************************************************************************)
(* Inputs.                                                                 *)
(***************************************************************************)
ScrapeResults ==
    { ScrapeResult(1, None, None, NoTitle, None),
      ScrapeResult(0, 40, None, NoTitle, None),
      ScrapeResult(0, 30, None, NoTitle, None),
      ScrapeResult(0, None, 45, NoTitle, None),
      ScrapeResult(0, 30, 35, "Weber Grill", None) }

\* (purchase, target, per-item thresholds) of the tracked product.
InitialProducts ==
    { NewProduct(50, None, 10, None, None, None),
      NewProduct(50, 45, None, None, None, 10),
      NewProduct(None, None, None, 10, 20, None) }

Setting(enabled, npct, ndol, upct, udol, batch) ==
    [ global_alerts_enabled |-> enabled,
      global_new_pct |-> npct, global_new_dollars |-> ndol,
      global_used_pct |-> upct, global_used_dollars |-> udol,
      batch_email_alerts |-> batch,
      auto_archive |-> FALSE,
      recall_scan_enabled |-> FALSE,
      recall_scan_frequency |-> "daily",
      last_recall_scan |-> None,
      check_interval_minutes |-> DEFAULT_INTERVAL_MINUTES,
      default_expiration_days |-> DEFAULT_EXPIRATION_DAYS ]

InitialSettings ==
    { Setting(FALSE, None, None, None, None, FALSE),
      Setting(FALSE, 5, None, None, None, TRUE),
      Setting(TRUE, 25, None, None, 5, FALSE) }

NoCall == [op |-> "none"]

Init ==
    /\ db \in [Pids -> InitialProducts]
    /\ settings \in InitialSettings
    /\ now = 0
    /\ cyc = IdleCycle
    /\ chk = [p \in Pids |-> "idle"]
    /\ alertLog = << >>
    /\ outbox = << >>
    /\ scrapes = 0
    /\ appended = [p \in Pids |-> << >>]
    /\ call = NoCall
    /\ rs = IdleScan
    /\ scan = NoScans
    /\ mgr = IdleManager
    /\ shutdown_requested = FALSE
    /\ pool = IdlePool

Next ==
    \/ CycleStart
    \/ CycleScrape
    \/ \E data \in ScrapeResults : CycleScrapeError(data)
    \/ \E data \in ScrapeResults, sent \in BOOLEAN : CycleApply(data, sent)
    \/ \E sent \in BOOLEAN : CycleEnd(sent)
    \/ \E p \in Pids : ApiCheckStart(p)
    \/ \E p \in Pids, data \in ScrapeResults : ApiCheckFailed(p, data)
    \/ \E p \in Pids, data \in ScrapeResults : ApiCheckApply(p, data)
    \/ \E d \in TickSteps : Tick(d)

Spec == Init /\ [][Next]_vars

-----------------------------------------------------------------------------
(***************************************************************************)
(* SpecUpdate: any sequence of update_from_scrape calls on the stored row, *)
(* starting from a new product or from one that has already been updated   *)
(* MAX_PRICE_HISTORY - 1 or MAX_PRICE_HISTORY times.                       *)
(***************************************************************************)
MaxUpdates == 3

PriorResult(n) ==
    IF n % 2 = 0 THEN ScrapeResult(0, 40, None, NoTitle, None)
    ELSE ScrapeResult(0, 30, 45, NoTitle, None)

\* row after the updates PriorResult(k + 1) .. PriorResult(k + n) at time 0
\* (applied by halves, the first half computed before the second is begun,
\* which keeps the evaluation shallow).
RECURSIVE Repeat(_, _, _)
Repeat(row, k, n) ==
    IF n = 0 THEN row
    ELSE IF n = 1 THEN update_from_scrape(row, PriorResult(k + 1), 0)
    ELSE LET h    == n \div 2
             half == Repeat(row, k, h)
         IN  IF half.last_checked = 0 THEN Repeat(half, k + h, n - h) ELSE half

PriorUpdates == {0, MAX_PRICE_HISTORY - 1, MAX_PRICE_HISTORY}

\* The scrape results of SpecUpdate: those above, a result with nothing but
\* the title of the result before it, and one with nothing but a screenshot.
UpdateResults ==
    ScrapeResults \cup { ScrapeResult(0, None, None, "Weber Grill", None),
                         ScrapeResult(0, None, None, NoTitle, 1) }

UpdateFromScrape(p, data) ==
    /\ scrapes < MaxUpdates
    /\ db' = [db EXCEPT ![p] = update_from_scrape(db[p], data, now)]
    /\ appended' = Sampled(appended, p, db[p], data, now)
    /\ scrapes' = scrapes + 1
    /\ call' = [op |-> "update_from_scrape", pid |-> p, data |-> data,
                result |-> scrape_updates(db[p], data)]
    /\ UNCHANGED <<settings, now, cyc, chk, alertLog, outbox, rs,
                 scan, mgr, shutdown_requested, pool>>

InitUpdate ==
    /\ \E row \in InitialProducts, n \in PriorUpdates :
           db = [p \in Pids |-> Repeat(row, 0, n)]
    /\ appended = [p \in Pids |-> db[p].price_history]
    /\ settings = Setting(FALSE, None, None, None, None, FALSE)
    /\ now = 0
    /\ cyc = IdleCycle
    /\ chk = [p \in Pids |-> "idle"]
    /\ alertLog = << >>
    /\ outbox = << >>
    /\ scrapes = 0
    /\ call = NoCall
    /\ rs = IdleScan
    /\ scan = NoScans
    /\ mgr = IdleManager
    /\ shutdown_requested = FALSE
    /\ pool = IdlePool

NextUpdate ==
    \/ \E p \in Pids, data \in UpdateResults : UpdateFromScrape(p, data)
    \/ \E d \in TickSteps : Tick(d)

SpecUpdate == InitUpdate /\ [][NextUpdate]_vars

(***************************************************************************)
(* SpecAlert: direct calls of should_alert_new / should_alert_used on a    *)
(* row, for every combination of the fields and arguments they read.       *)
(***************************************************************************)
AlertRows ==
    { [NewProduct(pp, None, npct, ndol, upct, udol) EXCEPT
           !.last_checked = lc,
           !.highest_new_price = hi, !.highest_used_price = hi,
           !.prev_new_price = pv, !.prev_used_price = pv] :
        pp \in {None, 50}, npct \in {None, 10}, ndol \in {None, 5},
        upct \in {None, 10}, udol \in {None, 5},
        lc \in {None, 0}, hi \in {None, 45}, pv \in {0, 40} }

CallPrices == {None, 30, 45}
CallPcts == {None, 0, 20}
CallDollars == {None, 5}

ShouldAlertNew(p, price, global_pct, global_dollars) ==
    /\ call' = [op |-> "should_alert_new", pid |-> p, price |-> price,
                global_pct |-> global_pct, global_dollars |-> global_dollars,
                result |-> should_alert_new(db[p], price, global_pct, global_dollars)]
    /\ UNCHANGED <<db, settings, now, cyc, chk, alertLog, outbox, scrapes, appended, rs,
                 scan, mgr, shutdown_requested, pool>>

ShouldAlertUsed(p, price, global_pct, global_dollars) ==
    /\ call' = [op |-> "should_alert_used", pid |-> p, price |-> price,
                global_pct |-> global_pct, global_dollars |-> global_dollars,
                result |-> should_alert_used(db[p], price, global_pct, global_dollars)]
    /\ UNCHANGED <<db, settings, now, cyc, chk, alertLog, outbox, scrapes, appended, rs,
                 scan, mgr, shutdown_requested, pool>>

InitAlert ==
    /\ db \in [Pids -> AlertRows]
    /\ settings = Setting(FALSE, None, None, None, None, FALSE)
    /\ now = 0
    /\ cyc = IdleCycle
    /\ chk = [p \in Pids |-> "idle"]
    /\ alertLog = << >>
    /\ outbox = << >>
    /\ scrapes = 0
    /\ appended = [p \in Pids |-> << >>]
    /\ call = NoCall
    /\ rs = IdleScan
    /\ scan = NoScans
    /\ mgr = IdleManager
    /\ shutdown_requested = FALSE
    /\ pool = IdlePool

NextAlert ==
    \/ \E p \in Pids, price \in CallPrices, gp \in CallPcts, gd \in CallDollars :
           ShouldAlertNew(p, price, gp, gd)
    \/ \E p \in Pids, price \in CallPrices, gp \in CallPcts, gd \in CallDollars :
           ShouldAlertUsed(p, price, gp, gd)

SpecAlert == InitAlert /\ [][NextAlert]_vars

-----------------------------------------------------------------------------
(***************************************************************************)
(* Inputs of the recall scan: product titles, and recalls of both schemas  *)
(* put together from parts that carry each signal of the scorer.           *)
(***************************************************************************)
Text(strs) == [i \in DOMAIN strs |-> W(strs[i])]

\* "Weber Genesis II Gas Grill E-335"
WeberGenesis == Text(<<"Weber", "Genesis", "II", "Gas", "Grill", "E">>) \o <<H("335")>>

ProductTitles ==
    {WeberGenesis,
     Text(<<"Weber">>),
     Text(<<"Genesis", "Gas", "Grill">>),
     Text(<<"The", "Pro">>),
     Text(<<"Loading", "B0ABCDEFGH">>),
     Text(<<"Order", "Item", "B0ABCDEFGH">>)}

\* "Weber Spirit Grill Model E-210"
SpiritGrill ==
    [Name |-> Text(<<"Weber", "Spirit", "Grill", "Model", "E">>) \o <<H("210")>>,
     Description |-> << >>, Model |-> <<W("E"), H("210")>>]
GenesisGrill ==
    [Name |-> Text(<<"Weber", "Genesis", "II", "Gas", "Grill">>),
     Description |-> Text(<<"gas", "grill">>), Model |-> <<W("E"), H("335")>>]
GenesisGasGrill == [Name |-> Text(<<"Genesis", "Gas", "Grill">>)]
GasGrillModel ==
    [Name |-> Text(<<"Gas", "Grill">>), Description |-> << >>,
     Model |-> <<W("E"), H("335")>>]
KettleModel ==
    [Name |-> Text(<<"Kettle">>), Description |-> << >>, Model |-> <<W("335")>>]
WeberKettle ==
    [Name |-> Text(<<"Weber", "Kettle">>), Description |-> << >>, Model |-> << >>]

SubRecords ==
    {SpiritGrill, GenesisGrill, GenesisGasGrill, GasGrillModel, KettleModel, WeberKettle}

ProductLists ==
    {<< >>} \cup {<<a>> : a \in SubRecords} \cup {<<a, b>> : a, b \in SubRecords}

GrillRecall == Text(<<"Genesis", "Grill", "Recall">>)
WeberGrillRecall == Text(<<"Weber", "Genesis", "Grill", "Recall">>)
WeberStephen == << [Name |-> Text(<<"Weber", "Stephen">>)] >>
Amazon == [Name |-> Text(<<"Amazon">>)]
HomeDepot == [Name |-> Text(<<"Home", "Depot">>)]
Upc(s) == << [UPC |-> Text(<<s>>)] >>

CpscRecall(products, title, manufacturers, retailers, upcs) ==
    [Products |-> products, Title |-> title, Manufacturers |-> manufacturers,
     Retailers |-> retailers, ProductUPCs |-> upcs]

CpscRecalls ==
    {CpscRecall(p, t, m, r, u) :
        p \in ProductLists,
        t \in {<< >>, GrillRecall, WeberGrillRecall},
        m \in {<< >>, WeberStephen},
        r \in {<< >>, <<Amazon>>, <<Amazon, HomeDepot, Amazon>>},
        u \in {<< >>, Upc("335"), Upc("210")}}

FdaRecall(description, reason, firm) ==
    [product_description |-> description, reason_for_recall |-> reason,
     recalling_firm |-> firm]

FdaRecalls ==
    {FdaRecall(d, r, f) :
        d \in {<< >>,
               Text(<<"Weber", "Genesis", "Gas", "Grill">>),
               Text(<<"Genesis", "II", "Gas", "Grill">>),
               Text(<<"Spirit", "Kettle", "Weber">>),
               Text(<<"Spirit", "Kettle", "Grill", "Weber">>),
               Text(<<"Genesis", "Spirit", "Kettle", "Grill">>),
               <<W("Weber"), H("Genesis"), W("Grill")>>},
        r \in {<< >>,
               Text(<<"Fire", "hazard", "from", "gas", "grill">>),
               Text(<<"Genesis", "Grill", "Fire">>),
               Text(<<"Genesis", "Spirit", "Kettle", "Grill">>)},
        f \in {<< >>, Text(<<"Weber", "Stephen">>), Text(<<"Home", "Depot">>)}}

(***************************************************************************)
(* SpecScore: one call of score_recall_match for every product title,      *)
(* every recall of either schema and either source.                        *)
(***************************************************************************)
\* The titles scored: those of the scans, "" and a title of four product
\* words, "Weber Genesis Spirit Kettle Grill".
ScoreTitles ==
    ProductTitles
        \cup {<< >>, Text(<<"Weber", "Genesis", "Spirit", "Kettle", "Grill">>)}

ScoreRecallMatch ==
    /\ call.op = "input"
    /\ call' = [op |-> "score_recall_match",
                product_title |-> call.product_title,
                recall_data |-> call.recall_data,
                source |-> call.source,
                result |-> score_recall_match(call.product_title, call.recall_data,
                                              call.source)]
    /\ UNCHANGED <<db, settings, now, cyc, chk, alertLog, outbox, scrapes, appended, rs,
                 scan, mgr, shutdown_requested, pool>>

InitScore ==
    /\ db = Detached
    /\ settings = Setting(FALSE, None, None, None, None, FALSE)
    /\ now = 0
    /\ cyc = IdleCycle
    /\ chk = [p \in Pids |-> "idle"]
    /\ alertLog = << >>
    /\ outbox = << >>
    /\ scrapes = 0
    /\ appended = [p \in Pids |-> << >>]
    /\ rs = IdleScan
    /\ scan = NoScans
    /\ mgr = IdleManager
    /\ shutdown_requested = FALSE
    /\ pool = IdlePool
    /\ \E t \in ScoreTitles,
          r \in CpscRecalls \cup FdaRecalls \cup {NoRecall},
          s \in {"cpsc", "fda"} :
            call = [op |-> "input", product_title |-> t, recall_data |-> r,
                    source |-> s]

NextScore == ScoreRecallMatch

SpecScore == InitScore /\ [][NextScore]_vars

(***************************************************************************)
(* SpecRecall: recall scans of one product after another, each source      *)
(* answering every request with a failure or with up to MaxRecalls recalls.*)
(***************************************************************************)
MaxRecalls == 2

CpscSample ==
    {CpscRecall(<<SpiritGrill>>, << >>, << >>, << >>, << >>),
     CpscRecall(<<GenesisGrill>>, WeberGrillRecall, WeberStephen, <<Amazon>>, << >>),
     CpscRecall(<<GenesisGasGrill>>, << >>, WeberStephen, << >>, << >>),
     CpscRecall(<<GasGrillModel, GenesisGasGrill>>, GrillRecall, << >>,
                <<Amazon, HomeDepot, Amazon>>, Upc("335")),
     CpscRecall(<<WeberKettle>>, WeberGrillRecall, WeberStephen,
                <<Amazon, HomeDepot, Amazon>>, Upc("335"))}

FdaSample ==
    {FdaRecall(Text(<<"Weber", "Genesis", "Gas", "Grill">>),
               Text(<<"Fire", "hazard", "from", "gas", "grill">>),
               Text(<<"Weber", "Stephen">>)),
     FdaRecall(Text(<<"Genesis", "II", "Gas", "Grill">>),
               Text(<<"Genesis", "Grill", "Fire">>), Text(<<"Home", "Depot">>)),
     FdaRecall(Text(<<"Spirit", "Kettle", "Weber">>),
               Text(<<"Genesis", "Grill", "Fire">>), Text(<<"Weber", "Stephen">>)),
     FdaRecall(<<W("Weber"), H("Genesis"), W("Grill")>>, << >>, << >>)}

\* The products the callers of run_recall_scan hand it: those with a title
\* that does not hold 'Loading'.
to_check ==
    {t \in ProductTitles : t # << >> /\ \A i \in DOMAIN t : t[i].t # "Loading"}

\* score_recall_match on the titles and recalls of this specification, worked
\* out once: a CPSC recall is scored as 'cpsc', an openFDA one as 'fda'.
CpscScores ==
    [k \in to_check \X CpscSample |-> score_recall_match(k[1], k[2], "cpsc")]

FdaScores ==
    [k \in to_check \X FdaSample |-> score_recall_match(k[1], k[2], "fda")]

ScoreTable == CpscScores @@ FdaScores

(***************************************************************************)
(* The recall scan of one product (run_recall_scan's loop body).           *)
(***************************************************************************)
ScanProduct(prod_title) ==
    /\ rs.pc \in {"idle", "done"}
    /\ rs' = [IdleScan EXCEPT !.pc = "cpsc", !.title = prod_title,
                !.keywords = extract_recall_keywords(prod_title).queries]
    /\ UNCHANGED <<db, settings, now, cyc, chk, alertLog, outbox, scrapes, appended, call,
                 scan, mgr, shutdown_requested, pool>>

\* The query after one that failed:  continue  (status_code != 200, or the
\* except branch), against a  break.
except_break(qi, queries) == queries + 1

except_continue(qi, queries) == qi + 1

\* One pass of  for query, weight in keywords  in check_cpsc_recalls_for_product.
CpscQuery(resp) ==
    /\ rs.pc = "cpsc"
    /\ rs.qi <= Len(rs.keywords)
    /\ LET request == [source |-> "cpsc", query |-> rs.keywords[rs.qi].query,
                       endpoint |-> "Recall"]
           recalls == IF resp.status # 200 THEN << >> ELSE FirstN(resp.recalls, 25)
       IN  \E scores \in {[i \in DOMAIN recalls |->
                              ScoreTable[<<rs.title, recalls[i]>>]]} :
           \E after \in {cpsc_loop(recalls, scores, 1, rs.best_match, rs.best_score)} :
           rs' = [rs EXCEPT
                    !.issued = Append(@, request),
                    !.best_match = after.best_match,
                    !.best_score = after.best_score,
                    !.scored = Scored(recalls, scores, after.n, "cpsc"),
                    !.high_seen = @ \/ HighSeen(SubSeq(scores, 1, after.n)),
                    !.cpsc_seen = BestSeen(@, scores, after.n),
                    !.failed = IF resp.status # 200 THEN @ + 1 ELSE @,
                    !.qi = IF resp.status # 200
                           THEN except_continue(rs.qi, Len(rs.keywords))
                           ELSE IF strong_match(after.best_score)
                           THEN Len(rs.keywords) + 1 ELSE @ + 1]
    /\ UNCHANGED <<db, settings, now, cyc, chk, alertLog, outbox, scrapes, appended, call,
                 scan, mgr, shutdown_requested, pool>>

\* check_cpsc_recalls_for_product returns; run_recall_scan takes the match or
\* turns to openFDA.
CpscReturn ==
    /\ rs.pc = "cpsc"
    /\ rs.qi > Len(rs.keywords)
    /\ rs' = IF accepted(rs.best_match, rs.best_score, MIN_SCORE)
             THEN [rs EXCEPT !.pc = "done", !.result = rs.best_match,
                             !.source = "cpsc"]
             ELSE [rs EXCEPT !.pc = "fda", !.qi = 1, !.ei = 1,
                             !.best_match = NoRecall, !.best_score = 0]
    /\ UNCHANGED <<db, settings, now, cyc, chk, alertLog, outbox, scrapes, appended, call,
                 scan, mgr, shutdown_requested, pool>>

\* One pass of  for endpoint in fda_endpoints  in check_fda_recalls_for_product.
FdaRequest(resp) ==
    /\ rs.pc = "fda"
    /\ rs.qi <= Len(FirstN(rs.keywords, 2))
    /\ LET endpoint == fda_endpoints[rs.ei]
           request == [source |-> "fda", query |-> rs.keywords[rs.qi].query,
                       endpoint |-> endpoint]
           results == IF resp.status # 200 THEN << >> ELSE resp.recalls
           last == rs.ei = Len(fda_endpoints)
       IN  \E scores \in {[i \in DOMAIN results |->
                              ScoreTable[<<rs.title, results[i]>>]]} :
           \E after \in {fda_loop(results, scores, 1, endpoint,
                                  rs.best_match, rs.best_score)} :
           rs' = [rs EXCEPT
                    !.issued = Append(@, request),
                    !.best_match = after.best_match,
                    !.best_score = after.best_score,
                    !.scored = Scored(results, scores, after.n, "fda"),
                    !.fda_seen = BestSeen(@, scores, after.n),
                    !.high_seen = @ \/ HighSeen(SubSeq(scores, 1, after.n)),
                    !.failed = IF resp.status # 200 THEN @ + 1 ELSE @,
                    !.ei = IF last THEN 1 ELSE @ + 1,
                    !.qi = IF last THEN @ + 1 ELSE @]
    /\ UNCHANGED <<db, settings, now, cyc, chk, alertLog, outbox, scrapes, appended, call,
                 scan, mgr, shutdown_requested, pool>>

FdaReturn ==
    /\ rs.pc = "fda"
    /\ rs.qi > Len(FirstN(rs.keywords, 2))
    /\ rs' = IF accepted(rs.best_match, rs.best_score, MIN_SCORE)
             THEN [rs EXCEPT !.pc = "done", !.result = rs.best_match,
                             !.source = "fda"]
             ELSE [rs EXCEPT !.pc = "done"]
    /\ UNCHANGED <<db, settings, now, cyc, chk, alertLog, outbox, scrapes, appended, call,
                 scan, mgr, shutdown_requested, pool>>

UpTo(S, n) == UNION {[1 .. k -> S] : k \in 0 .. n}

\* A response with status 200 and its recalls, a 404, a 500, or none at all
\* (status 0: requests.get or resp.json() raised).
Responses(S) ==
    {[status |-> 200, recalls |-> l] : l \in UpTo(S, MaxRecalls)}
        \cup {[status |-> c, recalls |-> << >>] : c \in {0, 404, 500}}

InitRecall ==
    /\ db = Detached
    /\ settings = Setting(FALSE, None, None, None, None, FALSE)
    /\ now = 0
    /\ cyc = IdleCycle
    /\ chk = [p \in Pids |-> "idle"]
    /\ alertLog = << >>
    /\ outbox = << >>
    /\ scrapes = 0
    /\ appended = [p \in Pids |-> << >>]
    /\ call = NoCall
    /\ rs = IdleScan
    /\ scan = NoScans
    /\ mgr = IdleManager
    /\ shutdown_requested = FALSE
    /\ pool = IdlePool

NextRecall ==
    \/ \E t \in to_check : ScanProduct(t)
    \/ \E resp \in Responses(CpscSample) : CpscQuery(resp)
    \/ CpscReturn
    \/ \E resp \in Responses(FdaSample) : FdaRequest(resp)
    \/ FdaReturn

SpecRecall == InitRecall /\ [][NextRecall]_vars

-----------------------------------------------------------------------------
(***************************************************************************)
(* SpecStatus: the recall status of the products under the requests that   *)
(* write it.  Flask serves each request on a thread of its own, with its   *)
(* own session, so two scans can be in flight while a recall is dismissed. *)
(***************************************************************************)
Prods == {1, 2}

RecallNumbers == {1}

\* What run_recall_scan can return for the products handed to it.
ScanResults(checked) ==
    UNION {[S -> {RecallData(k) : k \in RecallNumbers}] : S \in SUBSET checked}

\* api_scan_recalls up to the call of run_recall_scan: load every product.
ApiScanStart(r) ==
    /\ scan[r].pc = "idle"
    /\ LET checked == products_to_check(db)
       IN  scan' = [scan EXCEPT ![r] =
                       IF checked = {} THEN NoScan
                       ELSE [pc |-> "scanning", base |-> db, obj |-> db,
                             to_check |-> checked]]
    /\ call' = [op |-> "api_scan_recalls", step |-> "start", request |-> r]
    /\ UNCHANGED <<db, settings, now, cyc, chk, alertLog, outbox, scrapes, appended, rs,
                   mgr, shutdown_requested, pool>>

\* run_recall_scan has returned, which took it a while (it sleeps between
\* products): apply the results, mark the rest, stamp the settings, commit.
ApiScanFinish(r, results) ==
    /\ scan[r].pc = "scanning"
    /\ DOMAIN results \subseteq scan[r].to_check
    /\ now < MaxTime
    /\ now' = now + 1
    /\ db' = Commit(db, scan[r].base,
                    apply_results(scan[r].obj, scan[r].to_check, results, now'))
    /\ settings' = [settings EXCEPT !.last_recall_scan = now']
    /\ scan' = [scan EXCEPT ![r] = NoScan]
    /\ call' = [op |-> "api_scan_recalls", step |-> "finish", request |-> r,
                results |-> results]
    /\ UNCHANGED <<cyc, chk, alertLog, outbox, scrapes, appended, rs,
                   mgr, shutdown_requested, pool>>

ApiDismissRecall(p) ==
    /\ db' = [db EXCEPT ![p] = dismiss_recall(@)]
    /\ call' = [op |-> "api_dismiss_recall", pid |-> p]
    /\ UNCHANGED <<settings, now, cyc, chk, alertLog, outbox, scrapes, appended, rs,
                   scan, mgr, shutdown_requested, pool>>

TrackedProduct(title) ==
    [NewProduct(None, None, None, None, None, None) EXCEPT !.title = title]

\* The second product has no title yet, or was checked for recalls before.
InitStatus ==
    /\ \E second \in {TrackedProduct("Loading"),
                      [TrackedProduct("Weber Kettle") EXCEPT !.last_recall_check = 0]} :
           db = [p \in Prods |-> IF p = 1 THEN TrackedProduct("Weber Grill") ELSE second]
    /\ settings = Setting(FALSE, None, None, None, None, FALSE)
    /\ now = MaxTime - 2
    /\ cyc = IdleCycle
    /\ chk = [p \in Pids |-> "idle"]
    /\ alertLog = << >>
    /\ outbox = << >>
    /\ scrapes = 0
    /\ appended = [p \in Pids |-> << >>]
    /\ call = NoCall
    /\ rs = IdleScan
    /\ scan = NoScans
    /\ mgr = IdleManager
    /\ shutdown_requested = FALSE
    /\ pool = IdlePool

NextStatus ==
    \/ \E r \in Requests : ApiScanStart(r)
    \/ \E r \in Requests : \E results \in ScanResults(scan[r].to_check) :
           ApiScanFinish(r, results)
    \/ \E p \in Prods : ApiDismissRecall(p)

SpecStatus == InitStatus /\ [][NextStatus]_vars

-----------------------------------------------------------------------------
(***************************************************************************)
(* SpecManager: the manager thread.  manager_loop runs run_cycle and       *)
(* sleeps until the next one; run_cycle does all its work in one session,  *)
(* opened by get_session, which commits when run_cycle returns.            *)
(***************************************************************************)
\* Cycles manager_loop starts in one behaviour.
MaxCycles == 2

\* shutdown_requested.is_set()
is_set_never(flag) == FALSE

is_set(flag) == flag

\* should_scan of run_cycle, in hours.
should_scan(st, t) ==
    /\ st.recall_scan_enabled
    /\ \/ st.recall_scan_frequency = "every_check"
       \/ /\ st.recall_scan_frequency = "daily"
          /\ (st.last_recall_scan = None \/ t - st.last_recall_scan > 24)
       \/ /\ st.recall_scan_frequency = "weekly"
          /\ (st.last_recall_scan = None \/ t - st.last_recall_scan > 7 * 24)

\* The filter of the auto-archive query.
expired_or_due(row, t) ==
    ~row.is_archived /\ row.expires_at # None /\ row.expires_at <= t

expired(row, t) ==
    ~row.is_archived /\ row.expires_at # None /\ row.expires_at < t

\* The loop after a product has failed: the exception is logged.
after_failure_abort(queue) == << >>

after_failure(queue) == queue

\* A query adds the rows S to the objects of the session; an object that
\* is already there stays as it is.
Load(objs, table, S) ==
    [p \in DOMAIN objs \cup S |-> IF p \in DOMAIN objs THEN objs[p] ELSE table[p]]

\* manager_loop enters run_cycle, which decides whether to scan for recalls:
\* if so it loads every product and hands to_check to run_recall_scan, or,
\* with nothing to check, stamps the settings and commits.
MgrCycle ==
    /\ mgr.pc = "top"
    /\ ~is_set(shutdown_requested)
    /\ mgr.cycles < MaxCycles
    /\ LET due     == should_scan(settings, now)
           checked == products_to_check(db)
           started == [IdleManager EXCEPT !.cycles = mgr.cycles + 1]
       IN  IF due /\ checked # {}
           THEN /\ mgr' = [started EXCEPT !.pc = "scanning", !.base = db, !.obj = db,
                                          !.to_check = checked]
                /\ UNCHANGED settings
           ELSE /\ mgr' = [started EXCEPT !.pc = "archive"]
                /\ settings' = IF due THEN [settings EXCEPT !.last_recall_scan = now]
                               ELSE settings
    /\ UNCHANGED <<db, now, cyc, chk, alertLog, outbox, scrapes, appended, call, rs,
                   scan, shutdown_requested, pool>>

\* run_recall_scan has returned: apply, mark, stamp the settings, commit.
MgrRecallFinish(results) ==
    /\ mgr.pc = "scanning"
    /\ DOMAIN results \subseteq mgr.to_check
    /\ db' = Commit(db, mgr.base, apply_results(mgr.obj, mgr.to_check, results, now))
    /\ settings' = [settings EXCEPT !.last_recall_scan = now]
    /\ mgr' = [mgr EXCEPT !.pc = "archive", !.base = NoObjects, !.obj = NoObjects]
    /\ UNCHANGED <<now, cyc, chk, alertLog, outbox, scrapes, appended, call, rs,
                   scan, shutdown_requested, pool>>

\* Auto-archive, then the query of the products to check, which flushes the
\* archived objects first and so does not return them.  With no product
\* run_cycle returns, and get_session commits.
MgrArchive ==
    /\ mgr.pc = "archive"
    /\ LET due      == IF settings.auto_archive
                       THEN {p \in DOMAIN db : expired(db[p], now)} ELSE {}
           rows     == [p \in DOMAIN db |->
                           IF p \in due
                           THEN [db[p] EXCEPT !.is_archived = TRUE, !.archived_at = now]
                           ELSE db[p]]
           products == {p \in DOMAIN db : ~rows[p].is_archived /\ rows[p].is_active}
           loaded   == due \cup products
           base     == [p \in loaded |-> db[p]]
           obj      == [p \in loaded |-> rows[p]]
       IN  IF products = {}
           THEN /\ db' = Commit(db, base, obj)
                /\ mgr' = [mgr EXCEPT !.pc = "sleep", !.archived = due]
           ELSE /\ mgr' = [mgr EXCEPT !.pc = "loop", !.base = base, !.obj = obj,
                                      !.archived = due, !.products = products,
                                      !.queue = SortedSeq(products)]
                /\ UNCHANGED db
    /\ UNCHANGED <<settings, now, cyc, chk, alertLog, outbox, scrapes, appended, call, rs,
                   scan, shutdown_requested, pool>>

\* The loop reaches a product with the flag not set: prod.asin reloads an
\* expired object, and run_scraper is called.
MgrScrape ==
    /\ mgr.pc = "loop" /\ mgr.queue # << >>
    /\ ~is_set(shutdown_requested)
    /\ LET p == Head(mgr.queue)
       IN  mgr' = [mgr EXCEPT !.pc = "scraping", !.queue = Tail(@),
                              !.attempted = Append(@, p),
                              !.base = Load(@, db, {p}), !.obj = Load(@, db, {p})]
    /\ UNCHANGED <<db, settings, now, cyc, chk, alertLog, outbox, scrapes, appended, call,
                   rs, scan, shutdown_requested, pool>>

\* run_scraper raised, or returned an error: nothing is applied, nothing is
\* committed, and the loop goes on after its pause.
MgrScrapeFailed(data, raised) ==
    /\ mgr.pc = "scraping"
    /\ raised \/ Truthy(data.error)
    /\ mgr' = [mgr EXCEPT !.pc = "loop", !.queue = after_failure(@),
                          !.failed = @ \cup {mgr.attempted[Len(mgr.attempted)]}]
    /\ UNCHANGED <<db, settings, now, cyc, chk, alertLog, outbox, scrapes, appended, call,
                   rs, scan, shutdown_requested, pool>>

\* run_scraper returned data: update, evaluate the alerts, send or collect,
\* commit.  With raised, the alert step raises after update_from_scrape:
\* the except clause logs it, and the session keeps the changed object.
MgrApply(data, raised, sent) ==
    /\ mgr.pc = "scraping"
    /\ ~Truthy(data.error)
    /\ LET p      == mgr.attempted[Len(mgr.attempted)]
           use_global == settings.global_alerts_enabled
           g      == [new_pct      |-> IF use_global THEN settings.global_new_pct ELSE None,
                      new_dollars  |-> IF use_global THEN settings.global_new_dollars ELSE None,
                      used_pct     |-> IF use_global THEN settings.global_used_pct ELSE None,
                      used_dollars |-> IF use_global THEN settings.global_used_dollars ELSE None]
           prod   == update_from_scrape(mgr.obj[p], data, now)
           fire   == Alerts(prod, data, g) # {} /\ cooldown_over(prod.last_alert_sent, now)
           stamp  == fire /\ stamps_alert(settings.batch_email_alerts, sent)
           prod2  == IF stamp THEN [prod EXCEPT !.last_alert_sent = now] ELSE prod
       IN  /\ (sent = FALSE \/ (fire /\ ~settings.batch_email_alerts /\ ~raised))
           /\ IF raised
              THEN /\ mgr' = [mgr EXCEPT !.pc = "loop", !.queue = after_failure(@),
                                         !.obj[p] = prod, !.failed = @ \cup {p}]
                   /\ UNCHANGED db
              ELSE /\ db' = Commit(db, mgr.base, [mgr.obj EXCEPT ![p] = prod2])
                   /\ mgr' = [mgr EXCEPT !.pc = "loop",
                                         !.base = NoObjects, !.obj = NoObjects,
                                         !.batched_alerts =
                                             IF fire /\ settings.batch_email_alerts
                                             THEN Append(@, p) ELSE @]
    /\ UNCHANGED <<settings, now, cyc, chk, alertLog, outbox, scrapes, appended, call, rs,
                   scan, shutdown_requested, pool>>

\* The loop is over, or the flag is set and it breaks: the batched e-mail
\* is sent, run_cycle returns and get_session commits.
MgrEndCycle(sent) ==
    /\ mgr.pc = "loop"
    /\ mgr.queue = << >> \/ is_set(shutdown_requested)
    /\ LET batch == mgr.batched_alerts # << >> /\ settings.batch_email_alerts
       IN  /\ (sent = FALSE \/ batch)
           /\ outbox' = IF batch
                         THEN Append(outbox, [at |-> now, pids |-> mgr.batched_alerts,
                                              sent |-> sent])
                         ELSE outbox
    /\ db' = Commit(db, mgr.base, mgr.obj)
    /\ mgr' = [mgr EXCEPT !.pc = "sleep", !.base = NoObjects, !.obj = NoObjects]
    /\ UNCHANGED <<settings, now, cyc, chk, alertLog, scrapes, appended, call, rs,
                   scan, shutdown_requested, pool>>

\* The inter-cycle sleep runs out, the flag not set at any of its seconds.
MgrWake(d) ==
    /\ mgr.pc = "sleep"
    /\ ~is_set(shutdown_requested)
    /\ now' = now + d
    /\ mgr' = [mgr EXCEPT !.pc = "top"]
    /\ UNCHANGED <<db, settings, cyc, chk, alertLog, outbox, scrapes, appended, call, rs,
                   scan, shutdown_requested, pool>>

\* The flag is set: the sleep breaks, and the while loop ends.
MgrStop ==
    /\ mgr.pc \in {"top", "sleep"}
    /\ is_set(shutdown_requested)
    /\ mgr' = [mgr EXCEPT !.pc = "stopped"]
    /\ UNCHANGED <<db, settings, now, cyc, chk, alertLog, outbox, scrapes, appended, call,
                   rs, scan, shutdown_requested, pool>>

signal_handler ==
    /\ ~shutdown_requested
    /\ shutdown_requested' = TRUE
    /\ UNCHANGED <<db, settings, now, cyc, chk, alertLog, outbox, scrapes, appended, call,
                   rs, scan, mgr, pool>>

\* What run_scraper returns to the cycle.
ManagerScrapes ==
    { ScrapeResult(1, None, None, NoTitle, None),
      ScrapeResult(0, 40, None, "Weber Grill", None) }

\* Hours manager_loop sleeps between two cycles.
Waits == {25}

\* Recall scanning off; on at every cycle; daily and weekly, with the last
\* scan at or just beyond the cadence; auto-archive on, and off as well in
\* the first two.
ManagerSettings(t) ==
    {[Setting(FALSE, None, None, None, None, FALSE) EXCEPT
         !.recall_scan_enabled = c[1], !.recall_scan_frequency = c[2],
         !.last_recall_scan = c[3], !.auto_archive = c[4]] :
       c \in {<<FALSE, "every_check", None, TRUE>>, <<FALSE, "every_check", None, FALSE>>,
              <<TRUE, "every_check", t - 1, TRUE>>, <<TRUE, "every_check", t - 1, FALSE>>,
              <<TRUE, "daily", None, TRUE>>, <<TRUE, "daily", t - 24, TRUE>>,
              <<TRUE, "daily", t - 25, TRUE>>, <<TRUE, "weekly", t - 7 * 24, TRUE>>,
              <<TRUE, "weekly", t - 7 * 24 - 1, TRUE>>}}

\* A tracked product that may have expired, and a second one: not loaded
\* yet, archived before, matched to a recall, or expiring at this hour.
ManagerProducts(t) ==
    {[p \in Prods |-> IF p = 1 THEN first ELSE second] :
       first \in {[TrackedProduct("Weber Grill") EXCEPT !.expires_at = e] :
                     e \in {None, t - 1}},
       second \in {TrackedProduct("Loading"),
                   [TrackedProduct("Weber Kettle") EXCEPT
                       !.is_archived = TRUE, !.archived_at = 0],
                   apply_recall_to_product(TrackedProduct("Weber Kettle"),
                                           RecallData(1), 0),
                   [TrackedProduct("Weber Kettle") EXCEPT !.expires_at = t]}}

InitManager ==
    /\ now = 7 * 24 + 2
    /\ db \in ManagerProducts(now)
    /\ settings \in ManagerSettings(now)
    /\ cyc = IdleCycle
    /\ chk = [p \in Pids |-> "idle"]
    /\ alertLog = << >>
    /\ outbox = << >>
    /\ scrapes = 0
    /\ appended = [p \in Pids |-> << >>]
    /\ call = NoCall
    /\ rs = IdleScan
    /\ scan = NoScans
    /\ mgr = IdleManager
    /\ shutdown_requested = FALSE
    /\ pool = IdlePool

ManagerStep ==
    \/ MgrCycle
    \/ \E results \in ScanResults(mgr.to_check) : MgrRecallFinish(results)
    \/ MgrArchive
    \/ MgrScrape
    \/ \E data \in ManagerScrapes, raised \in BOOLEAN : MgrScrapeFailed(data, raised)
    \/ \E data \in ManagerScrapes, raised \in BOOLEAN, sent \in BOOLEAN :
           MgrApply(data, raised, sent)
    \/ \E sent \in BOOLEAN : MgrEndCycle(sent)
    \/ \E d \in Waits : MgrWake(d)
    \/ MgrStop

NextManager == ManagerStep \/ signal_handler

SpecManager == InitManager /\ [][NextManager]_vars

\* The manager thread keeps running: every call it makes returns.
SpecManagerLive == SpecManager /\ WF_vars(ManagerStep)

-----------------------------------------------------------------------------
(***************************************************************************)
(* SpecWait: the interval between two cycles.  The settings form stores    *)
(* check_interval_minutes, and manager_loop computes from it the seconds   *)
(* to wait.  A jitter is counted in half seconds.                          *)
(***************************************************************************)
\* max(60, int(...)) of settings_page.
stored_interval_unclamped(minutes) == minutes

stored_interval(minutes) == IF minutes > 60 THEN minutes ELSE 60

\* int(x) for x counted in half seconds: the fraction is cut off.
int(halves) == IF halves >= 0 THEN halves \div 2 ELSE -((-halves) \div 2)

\* wait of manager_loop.
wait_seconds(check_interval_minutes, jitter) ==
    int(2 * (check_interval_minutes * 60) + jitter)

\* random.uniform(-INTERVAL_JITTER_MINUTES * 60, INTERVAL_JITTER_MINUTES * 60)
Jitters ==
    {j * s : j \in {0, 1, 2, 3, 60 * 60, 2 * INTERVAL_JITTER_MINUTES * 60 - 1,
                    2 * INTERVAL_JITTER_MINUTES * 60},
             s \in {1, -1}}

\* The fields of the settings form the model reads; check_interval is a
\* number of minutes, or, with numeric false, a text that is no number.
SettingsForms ==
    [check_interval : {-5, 1, 59, 60, 61, 180, 1440, 1441}, numeric : BOOLEAN,
     auto_archive : BOOLEAN, recall_scan_enabled : BOOLEAN]

\* settings_page, POST.  The fields are assigned in the order of the form
\* handler; int() of a text that is no number raises, 'Invalid values' is
\* flashed, and get_session commits what was assigned before.
SettingsPost(form) ==
    /\ settings' =
          IF ~form.numeric
          THEN [settings EXCEPT !.auto_archive = form.auto_archive]
          ELSE [settings EXCEPT
                   !.auto_archive = form.auto_archive,
                   !.check_interval_minutes = stored_interval(form.check_interval),
                   !.global_alerts_enabled = FALSE,
                   !.global_new_pct = None, !.global_used_pct = None,
                   !.global_new_dollars = None, !.global_used_dollars = None,
                   !.batch_email_alerts = FALSE,
                   !.recall_scan_enabled = form.recall_scan_enabled,
                   !.recall_scan_frequency = "daily"]
    /\ call' = [op |-> "settings_page"]
    /\ UNCHANGED <<db, now, cyc, chk, alertLog, outbox, scrapes, appended, rs,
                   scan, mgr, shutdown_requested, pool>>

\* manager_loop after run_cycle: read the interval, draw the jitter.
ManagerWait(jitter) ==
    /\ call' = [op |-> "manager_loop", jitter |-> jitter,
                wait |-> wait_seconds(settings.check_interval_minutes, jitter)]
    /\ UNCHANGED <<db, settings, now, cyc, chk, alertLog, outbox, scrapes, appended, rs,
                   scan, mgr, shutdown_requested, pool>>

InitWait ==
    /\ db = [p \in Pids |-> NewProduct(None, None, None, None, None, None)]
    /\ settings = Setting(FALSE, None, None, None, None, FALSE)
    /\ now = 0
    /\ cyc = IdleCycle
    /\ chk = [p \in Pids |-> "idle"]
    /\ alertLog = << >>
    /\ outbox = << >>
    /\ scrapes = 0
    /\ appended = [p \in Pids |-> << >>]
    /\ call = NoCall
    /\ rs = IdleScan
    /\ scan = NoScans
    /\ mgr = IdleManager
    /\ shutdown_requested = FALSE
    /\ pool = IdlePool

NextWait ==
    \/ \E form \in SettingsForms : SettingsPost(form)
    \/ \E jitter \in Jitters : ManagerWait(jitter)

SpecWait == InitWait /\ [][NextWait]_vars

-----------------------------------------------------------------------------
(***************************************************************************)
(* SpecCheck: on-demand checks, api_check, with the executor that runs     *)
(* their scrapes.  A request hands run_scraper to the executor and waits   *)
(* for the result for SCRAPE_TIMEOUT seconds; the executor has max_workers *)
(* threads and starts the tasks in the order submitted.  chk[r] holds the  *)
(* position of request r, the seconds it has waited and its response.      *)
(***************************************************************************)
SCRAPE_TIMEOUT == 90
max_workers == 2

\* Seconds by which the clock of the waiting requests advances in a step.
CheckTick == 45

Checks == {1, 2, 3}

\* The product each request is for.
CheckedPid == 1

NoResponse == [success |-> FALSE, error |-> "none"]

IdleCheck == [pc |-> "idle", waited |-> 0, response |-> NoResponse]

\* The reasons scrape_with_requests gives for a failure.
timeout_text(error) == "Timeout after 90s"

ErrorText(error) == "Request timed out. Amazon may be slow or blocking."

timeout_message == "Timeout after 90s"

\* A worker thread of the executor is free to take a task.
has_free_worker_always(running) == TRUE

has_free_worker(running) == Cardinality(running) < max_workers

\* data.get('error') and not data.get('new_price') and not data.get('used_price')
scrape_failed(data) ==
    Truthy(data.error) /\ ~Truthy(data.new_price) /\ ~Truthy(data.used_price)

\* api_check up to future.result: read the asin, submit run_scraper.
CheckSubmit(r) ==
    /\ chk[r].pc = "idle"
    /\ chk' = [chk EXCEPT ![r] = [IdleCheck EXCEPT !.pc = "waiting"]]
    /\ pool' = [pool EXCEPT !.queue = Append(@, r)]
    /\ UNCHANGED <<db, settings, now, cyc, alertLog, outbox, scrapes, appended, call, rs,
                   scan, mgr, shutdown_requested>>

\* A free worker takes the oldest task of the queue and calls run_scraper.
WorkerStart ==
    /\ pool.queue # << >>
    /\ has_free_worker(pool.running)
    /\ pool' = [pool EXCEPT !.queue = Tail(@), !.running = @ \cup {Head(pool.queue)}]
    /\ UNCHANGED <<db, settings, now, cyc, chk, alertLog, outbox, scrapes, appended, call,
                   rs, scan, mgr, shutdown_requested>>

\* run_scraper returns on its worker: the future holds the result.
WorkerFinish(r, data) ==
    /\ r \in pool.running
    /\ pool' = [pool EXCEPT !.running = @ \ {r},
                            !.result = [q \in DOMAIN @ \cup {r} |->
                                           IF q = r THEN data ELSE @[q]]]
    /\ UNCHANGED <<db, settings, now, cyc, chk, alertLog, outbox, scrapes, appended, call,
                   rs, scan, mgr, shutdown_requested>>

\* future.result returns data: report a failed scrape, or load the
\* product in a second session, update it and commit.
CheckResult(r) ==
    /\ chk[r].pc = "waiting"
    /\ r \in DOMAIN pool.result
    /\ LET data == pool.result[r]
       IN  IF scrape_failed(data)
           THEN /\ chk' = [chk EXCEPT ![r].pc = "done",
                                      ![r].response = [success |-> FALSE,
                                                       error |-> ErrorText(data.error)]]
                /\ UNCHANGED db
           ELSE /\ chk' = [chk EXCEPT ![r].pc = "done",
                                      ![r].response = [success |-> TRUE, error |-> "none"]]
                /\ db' = [db EXCEPT ![CheckedPid] = update_from_scrape(@, data, now)]
    /\ appended' = IF scrape_failed(pool.result[r]) THEN appended
                   ELSE Sampled(appended, CheckedPid, db[CheckedPid], pool.result[r], now)
    /\ UNCHANGED <<settings, now, cyc, alertLog, outbox, scrapes, call, rs,
                   scan, mgr, shutdown_requested, pool>>

\* future.result raises FuturesTimeout: the task is left to the executor.
CheckTimeout(r) ==
    /\ chk[r].pc = "waiting"
    /\ chk[r].waited >= SCRAPE_TIMEOUT
    /\ r \notin DOMAIN pool.result
    /\ chk' = [chk EXCEPT ![r].pc = "done",
                          ![r].response = [success |-> FALSE, error |-> timeout_message]]
    /\ UNCHANGED <<db, settings, now, cyc, alertLog, outbox, scrapes, appended, call, rs,
                   scan, mgr, shutdown_requested, pool>>

\* Time passes for the requests that wait, none of them beyond its timeout.
CheckWait ==
    /\ \E r \in Checks : chk[r].pc = "waiting"
    /\ \A r \in Checks : chk[r].pc = "waiting" => chk[r].waited < SCRAPE_TIMEOUT
    /\ chk' = [r \in Checks |->
                  IF chk[r].pc = "waiting"
                  THEN [chk[r] EXCEPT !.waited = @ + CheckTick] ELSE chk[r]]
    /\ UNCHANGED <<db, settings, now, cyc, alertLog, outbox, scrapes, appended, call, rs,
                   scan, mgr, shutdown_requested, pool>>

\* What run_scraper returns to a check.
CheckScrapes ==
    { ScrapeResult(1, None, None, NoTitle, None),
      ScrapeResult(0, 40, None, NoTitle, None),
      ScrapeResult(0, 30, None, NoTitle, None) }

InitCheck ==
    /\ db = [p \in Pids |-> NewProduct(50, None, None, None, None, None)]
    /\ settings = Setting(FALSE, None, None, None, None, FALSE)
    /\ now = 1
    /\ cyc = IdleCycle
    /\ chk = [r \in Checks |-> IdleCheck]
    /\ alertLog = << >>
    /\ outbox = << >>
    /\ scrapes = 0
    /\ appended = [p \in Pids |-> << >>]
    /\ call = NoCall
    /\ rs = IdleScan
    /\ scan = NoScans
    /\ mgr = IdleManager
    /\ shutdown_requested = FALSE
    /\ pool = IdlePool

NextCheck ==
    \/ \E r \in Checks : CheckSubmit(r)
    \/ WorkerStart
    \/ \E r \in Checks, data \in CheckScrapes : WorkerFinish(r, data)
    \/ \E r \in Checks : CheckResult(r)
    \/ \E r \in Checks : CheckTimeout(r)
    \/ CheckWait

SpecCheck == InitCheck /\ [][NextCheck]_vars

-----------------------------------------------------------------------------
(***************************************************************************)
(* SpecEvaluate: the alert evaluation of run_cycle for one product and one *)
(* scrape: the global thresholds as run_cycle resolves them from the       *)
(* settings, update_from_scrape, then the target and threshold checks.     *)
(***************************************************************************)
\* global_new_pct ... global_used_dollars of run_cycle.
global_thresholds(st) ==
    [new_pct      |-> IF st.global_alerts_enabled THEN st.global_new_pct ELSE None,
     new_dollars  |-> IF st.global_alerts_enabled THEN st.global_new_dollars ELSE None,
     used_pct     |-> IF st.global_alerts_enabled THEN st.global_used_pct ELSE None,
     used_dollars |-> IF st.global_alerts_enabled THEN st.global_used_dollars ELSE None]

\* The loop body of run_cycle from update_from_scrape to the alerts list.
CycleAlerts(p, data) ==
    /\ call' = [op |-> "run_cycle_alerts", pid |-> p, data |-> data,
                alerts |-> Alerts(update_from_scrape(db[p], data, now), data,
                                  global_thresholds(settings))]
    /\ UNCHANGED <<db, settings, now, cyc, chk, alertLog, outbox, scrapes, appended, rs,
                   scan, mgr, shutdown_requested, pool>>

\* Rows with and without a target price, a purchase price, a highest price,
\* a baseline and each per-item threshold.
EvaluatedRows ==
    { [NewProduct(pp, tp, npct, ndol, upct, udol) EXCEPT
           !.last_checked = lc,
           !.highest_new_price = hi, !.highest_used_price = hi,
           !.prev_new_price = 40, !.prev_used_price = 40] :
        pp \in {None, 50}, tp \in {None, 45}, npct \in {None, 10}, ndol \in {None, 5},
        upct \in {None, 10}, udol \in {None, 5},
        lc \in {None, 0}, hi \in {None, 48} }

\* Global alerts off and on, with each global threshold set or not.
EvaluatedSettings ==
    { Setting(e, npct, ndol, upct, udol, FALSE) :
        e \in BOOLEAN, npct \in {None, 20}, ndol \in {None, 8},
        upct \in {None, 20}, udol \in {None, 8} }

EvaluatedScrapes ==
    { ScrapeResult(0, n, u, NoTitle, None) : n \in {None, 30, 45}, u \in {None, 44, 46} }

InitEvaluate ==
    /\ db \in [Pids -> EvaluatedRows]
    /\ settings \in EvaluatedSettings
    /\ now = 1
    /\ cyc = IdleCycle
    /\ chk = [p \in Pids |-> "idle"]
    /\ alertLog = << >>
    /\ outbox = << >>
    /\ scrapes = 0
    /\ appended = [p \in Pids |-> << >>]
    /\ call = NoCall
    /\ rs = IdleScan
    /\ scan = NoScans
    /\ mgr = IdleManager
    /\ shutdown_requested = FALSE
    /\ pool = IdlePool

NextEvaluate == \E p \in Pids, data \in EvaluatedScrapes : CycleAlerts(p, data)

SpecEvaluate == InitEvaluate /\ [][NextEvaluate]_vars

-----------------------------------------------------------------------------
(***************************************************************************)
(* SpecTrack: the handlers that create, archive and restore products, run  *)
(* concurrently (the Flask request threads and the manager thread), each   *)
(* in its own session on the one SQLite database.  db is the committed     *)
(* products table, a sequence indexed by id, of rows reduced to asin and   *)
(* is_archived; chk holds the session of each handler: the items it has    *)
(* still to go through, the objects it has added (new) or changed (dirty)  *)
(* and not flushed, and the rows it has inserted (own) or updated          *)
(* (restored) and not committed.  A session with flushed writes holds the  *)
(* database's write lock until it commits or rolls back.                   *)
(***************************************************************************)
Handlers == {"add_product", "api_scan_orders", "run_cycle"}

NoAsin == ""

\* What the handlers are given: the asins of the submitted urls (add_product)
\* or of the orders found (api_scan_orders, run_cycle); NoAsin is a url
\* without an asin, or an order without one.
Batches ==
    { <<"B0AAAAAAAA">>,
      <<"B0AAAAAAAA", "B0AAAAAAAA">>,
      <<"B0AAAAAAAA", "B0BBBBBBBB">>,
      <<NoAsin, "B0BBBBBBBB">> }

TrackedRow(asin, archived) == [asin |-> asin, is_archived |-> archived]

IdleSession ==
    [pc |-> "idle", items |-> << >>, new |-> << >>, dirty |-> {},
     own |-> << >>, restored |-> {}]

asins_of(rows) == {rows[i].asin : i \in DOMAIN rows}

holds_lock(s) == s.own # << >> \/ s.restored # {}

lock_free(h) == \A g \in Handlers \ {h} : ~holds_lock(chk[g])

needs_flush(s) == s.new # << >> \/ s.dirty # {}

\* asin = Column(String, unique=True): an INSERT of the flush fails.
violates_unique_never(table, s) == FALSE

violates_unique(table, s) ==
    \E i \in DOMAIN s.new :
        \/ s.new[i] \in asins_of(table) \cup asins_of(s.own)
        \/ \E j \in 1..(i - 1) : s.new[j] = s.new[i]

\* session.flush(): INSERT the added objects, UPDATE the changed ones.
flush(s) ==
    [s EXCEPT !.own = @ \o [i \in DOMAIN s.new |-> TrackedRow(s.new[i], FALSE)],
              !.new = << >>,
              !.restored = @ \cup s.dirty,
              !.dirty = {}]

\* The table as the session sees it: the committed rows, with its own
\* changes, and the rows it inserted.
view(table, s) ==
    [pid \in DOMAIN table |->
        IF pid \in s.restored \cup s.dirty
        THEN [table[pid] EXCEPT !.is_archived = FALSE] ELSE table[pid]] \o s.own

\* s.query(Product).filter_by(asin=asin).first(): the id, 0 for None.
filter_by_asin(rows, asin) ==
    IF asin \in asins_of(rows)
    THEN CHOOSE pid \in DOMAIN rows :
             /\ rows[pid].asin = asin
             /\ \A q \in DOMAIN rows : rows[q].asin = asin => pid <= q
    ELSE 0

\* The body of the loop over urls / orders, after the autoflush of its query.
track(s, table, asin) ==
    LET existing == filter_by_asin(view(table, s), asin)
    IN  IF existing # 0
        THEN IF view(table, s)[existing].is_archived
             THEN [s EXCEPT !.dirty = @ \cup {existing}]
             ELSE s
        ELSE [s EXCEPT !.new = Append(@, asin)]

\* The handler is called.
HandlerBegin(h, batch) ==
    /\ chk[h].pc = "idle"
    /\ chk' = [chk EXCEPT ![h] = [IdleSession EXCEPT !.pc = "loop", !.items = batch]]
    /\ call' = [op |-> h, step |-> "begin"]
    /\ UNCHANGED <<db, settings, now, cyc, alertLog, outbox, scrapes, appended,
                 rs, scan, mgr, shutdown_requested, pool>>

\* The exception leaves get_session (or the flush rolled the transaction
\* back): nothing of the session reaches the table.
Rollback(h, why) ==
    /\ chk' = [chk EXCEPT ![h] = IdleSession]
    /\ call' = [op |-> h, step |-> "failed", why |-> why]
    /\ UNCHANGED <<db, settings, now, cyc, alertLog, outbox, scrapes, appended,
                 rs, scan, mgr, shutdown_requested, pool>>

\* One url / order of the loop.
HandlerItem(h) ==
    LET s    == chk[h]
        asin == Head(s.items)
    IN  /\ s.pc = "loop" /\ s.items # << >>
        /\ IF asin = NoAsin
           THEN /\ chk' = [chk EXCEPT ![h].items = Tail(@)]
                /\ call' = [op |-> h, step |-> "item"]
                /\ UNCHANGED <<db, settings, now, cyc, alertLog, outbox, scrapes,
                             appended, rs, scan, mgr, shutdown_requested, pool>>
           ELSE /\ needs_flush(s) => lock_free(h)
                /\ IF needs_flush(s) /\ violates_unique(db, s)
                   THEN Rollback(h, "IntegrityError")
                   ELSE /\ chk' = [chk EXCEPT ![h] =
                                      [track(flush(s), db, asin) EXCEPT !.items = Tail(@)]]
                        /\ call' = [op |-> h, step |-> "item"]
                        /\ UNCHANGED <<db, settings, now, cyc, alertLog, outbox,
                                     scrapes, appended, rs, scan, mgr,
                                     shutdown_requested, pool>>

\* The end of the loop: s.commit().
HandlerCommit(h) ==
    LET s == chk[h]
    IN  /\ s.pc = "loop" /\ s.items = << >>
        /\ needs_flush(s) => lock_free(h)
        /\ IF violates_unique(db, s)
           THEN Rollback(h, "IntegrityError")
           ELSE /\ db' = view(db, flush(s))
                /\ chk' = [chk EXCEPT ![h] = IdleSession]
                /\ call' = [op |-> h, step |-> "commit"]
                /\ UNCHANGED <<settings, now, cyc, alertLog, outbox, scrapes,
                             appended, rs, scan, mgr, shutdown_requested, pool>>

\* The write lock is not released in time: database is locked.
HandlerBusy(h) ==
    /\ chk[h].pc = "loop"
    /\ needs_flush(chk[h]) /\ ~lock_free(h)
    /\ Rollback(h, "OperationalError")

archive_product(pid) ==
    /\ pid \in DOMAIN db
    /\ lock_free("archive_product")
    /\ db' = [db EXCEPT ![pid].is_archived = TRUE]
    /\ call' = [op |-> "archive_product", step |-> "commit"]
    /\ UNCHANGED <<settings, now, cyc, chk, alertLog, outbox, scrapes, appended,
                 rs, scan, mgr, shutdown_requested, pool>>

restore_product(pid) ==
    /\ pid \in DOMAIN db
    /\ lock_free("restore_product")
    /\ db' = [db EXCEPT ![pid].is_archived = FALSE]
    /\ call' = [op |-> "restore_product", step |-> "commit"]
    /\ UNCHANGED <<settings, now, cyc, chk, alertLog, outbox, scrapes, appended,
                 rs, scan, mgr, shutdown_requested, pool>>

InitTrack ==
    /\ db \in {<< >>, <<TrackedRow("B0AAAAAAAA", TRUE)>>}
    /\ chk = [h \in Handlers |-> IdleSession]
    /\ settings = Setting(FALSE, None, None, None, None, FALSE)
    /\ now = 0
    /\ cyc = IdleCycle
    /\ alertLog = << >>
    /\ outbox = << >>
    /\ scrapes = 0
    /\ appended = << >>
    /\ call = NoCall
    /\ rs = IdleScan
    /\ scan = NoScans
    /\ mgr = IdleManager
    /\ shutdown_requested = FALSE
    /\ pool = IdlePool

NextTrack ==
    \/ \E h \in Handlers, batch \in Batches : HandlerBegin(h, batch)
    \/ \E h \in Handlers : HandlerItem(h)
    \/ \E h \in Handlers : HandlerCommit(h)
    \/ \E h \in Handlers : HandlerBusy(h)
    \/ \E pid \in DOMAIN db : archive_product(pid)
    \/ \E pid \in DOMAIN db : restore_product(pid)

SpecTrack == InitTrack /\ [][NextTrack]_vars

-----------------------------------------------------------------------------
(***************************************************************************)
(* SpecArchive: the handlers that archive and restore products, called one *)
(* after another, each in a session of its own, while days pass.  db is    *)
(* the products table, a sequence indexed by id, of rows reduced to asin,  *)
(* is_archived, archived_at and expires_at; the time is in hours.          *)
(***************************************************************************)
MaxDays == 3

Day == 24

ArchiveAsins == {"B0AAAAAAAA", "B0BBBBBBBB"}

\* The  expiration  field of the add form: blank (the default), '0' (never)
\* or a number of days.
ExpirationChoices == {"", "0", "1"}

days_of(exp_str) == IF exp_str = "1" THEN 1 ELSE 0

\* The retention days of the settings page.
RetentionDays == {0, 1, 2}

ArchiveRow(asin, exp) ==
    [asin |-> asin, is_archived |-> FALSE, archived_at |-> None, expires_at |-> exp]

\* p.is_archived = True; p.archived_at = now
archived(row, t) == [row EXCEPT !.is_archived = TRUE, !.archived_at = t]

\* p.is_archived = False; p.archived_at = None
unarchived_dated(row) == [row EXCEPT !.is_archived = FALSE]

unarchived(row) == [row EXCEPT !.is_archived = FALSE, !.archived_at = None]

\* exp of add_product.
add_expiration(exp_str, st, t) ==
    IF exp_str = "0" THEN None
    ELSE IF exp_str # "" THEN t + days_of(exp_str) * Day
    ELSE IF st.default_expiration_days > 0 THEN t + st.default_expiration_days * Day
    ELSE None

\* base_date + timedelta(days=default_expiration_days) of an order.
order_expiration(order_date, st, t) ==
    (IF order_date # None THEN order_date ELSE t) + st.default_expiration_days * Day

ArchiveFrame ==
    UNCHANGED <<settings, cyc, chk, alertLog, outbox, scrapes, appended, rs,
                scan, mgr, shutdown_requested, pool>>

ArchiveProduct(pid) ==
    /\ pid \in DOMAIN db
    /\ db' = [db EXCEPT ![pid] = archived(@, now)]
    /\ call' = [op |-> "archive_product", pid |-> pid, at |-> now]
    /\ UNCHANGED now
    /\ ArchiveFrame

RestoreProduct(pid) ==
    /\ pid \in DOMAIN db
    /\ db' = [db EXCEPT ![pid] =
                IF settings.default_expiration_days > 0
                THEN [unarchived(@) EXCEPT !.expires_at =
                         now + settings.default_expiration_days * Day]
                ELSE unarchived(@)]
    /\ call' = [op |-> "restore_product", pid |-> pid, at |-> now]
    /\ UNCHANGED now
    /\ ArchiveFrame

\* archive_expired, and the auto-archive step of run_cycle (cycle): every
\* product that is not archived and whose expires_at has passed.
ArchiveOverdue(cycle) ==
    /\ cycle => settings.auto_archive
    /\ db' = [pid \in DOMAIN db |->
                IF expired(db[pid], now) THEN archived(db[pid], now) ELSE db[pid]]
    /\ call' = [op |-> IF cycle THEN "run_cycle_archive" ELSE "archive_expired",
                pid |-> 0, at |-> now]
    /\ UNCHANGED now
    /\ ArchiveFrame

\* add_product with one url.
AddProduct(asin, exp_str) ==
    LET ex  == filter_by_asin(db, asin)
        exp == add_expiration(exp_str, settings, now)
    IN  /\ db' = IF ex # 0
                 THEN IF db[ex].is_archived
                      THEN [db EXCEPT ![ex] = [unarchived(@) EXCEPT !.expires_at = exp]]
                      ELSE db
                 ELSE Append(db, ArchiveRow(asin, exp))
        /\ call' = [op |-> "add_product",
                    pid |-> IF ex # 0 THEN ex ELSE Len(db) + 1, at |-> now]
        /\ UNCHANGED now
        /\ ArchiveFrame

\* The import of one order, by run_cycle or by api_scan_orders.
ImportOrder(asin, order_date) ==
    LET existing == filter_by_asin(db, asin)
    IN  /\ order_date # None => order_date <= now
        /\ db' = IF existing # 0
                 THEN IF db[existing].is_archived
                      THEN [db EXCEPT ![existing] =
                              IF settings.default_expiration_days > 0
                              THEN [unarchived(@) EXCEPT !.expires_at =
                                       order_expiration(order_date, settings, now)]
                              ELSE unarchived(@)]
                      ELSE db
                 ELSE Append(db, ArchiveRow(asin,
                          IF settings.default_expiration_days > 0
                          THEN order_expiration(order_date, settings, now)
                          ELSE None))
        /\ call' = [op |-> "import",
                    pid |-> IF existing # 0 THEN existing ELSE Len(db) + 1, at |-> now]
        /\ UNCHANGED now
        /\ ArchiveFrame

DayPasses ==
    /\ now + Day <= MaxDays * Day
    /\ now' = now + Day
    /\ UNCHANGED <<db, call>>
    /\ ArchiveFrame

InitArchive ==
    /\ db = << >>
    /\ \E days \in RetentionDays, auto \in BOOLEAN :
           settings = [Setting(FALSE, None, None, None, None, FALSE) EXCEPT
                          !.default_expiration_days = days, !.auto_archive = auto]
    /\ now = 0
    /\ cyc = IdleCycle
    /\ chk = [p \in Pids |-> "idle"]
    /\ alertLog = << >>
    /\ outbox = << >>
    /\ scrapes = 0
    /\ appended = << >>
    /\ call = NoCall
    /\ rs = IdleScan
    /\ scan = NoScans
    /\ mgr = IdleManager
    /\ shutdown_requested = FALSE
    /\ pool = IdlePool

NextArchive ==
    \/ \E pid \in DOMAIN db : ArchiveProduct(pid)
    \/ \E pid \in DOMAIN db : RestoreProduct(pid)
    \/ \E cycle \in BOOLEAN : ArchiveOverdue(cycle)
    \/ \E asin \in ArchiveAsins, exp_str \in ExpirationChoices : AddProduct(asin, exp_str)
    \/ \E asin \in ArchiveAsins, order_date \in {None, 0} : ImportOrder(asin, order_date)
    \/ DayPasses

SpecArchive == InitArchive /\ [][NextArchive]_vars

(***************************************************************************)
(* SpecPaths: the two callers of run_scraper side by side.  db holds two   *)
(* copies of one product, keyed by the handler that checks it; every       *)
(* scrape result is handed to both handlers at the same time, the          *)
(* scheduled cycle updating its copy and the on-demand check its own.      *)
(***************************************************************************)
\* Scrape results handed to both handlers in one behaviour.
MaxChecks == 2

Paths == {"run_cycle", "api_check"}

\* scrape_with_playwright sets 'error' in its except clause after the main
\* page's price was read (the offers page failed); run_scraper returns such
\* a result as it is.
PathResults ==
    UpdateResults \cup { ScrapeResult(1, 40, None, NoTitle, None),
                         ScrapeResult(1, None, 45, "Weber Grill", None),
                         ScrapeResult(1, None, None, "Weber Grill", None) }

\* run_cycle:  if not data.get('error'): prod.update_from_scrape(data)
cycle_applies(data) == ~Truthy(data.error)

\* api_check:  if data.get('error') and not data.get('new_price')
\*                and not data.get('used_price'): return failure
check_applies(data) ==
    ~(Truthy(data.error) /\ ~Truthy(data.new_price) /\ ~Truthy(data.used_price))

applies(path, data) ==
    IF path = "run_cycle" THEN cycle_applies(data) ELSE check_applies(data)

BothCheck(data) ==
    /\ scrapes < MaxChecks
    /\ db' = [path \in Paths |->
                 IF applies(path, data)
                 THEN update_from_scrape(db[path], data, now)
                 ELSE db[path]]
    /\ appended' = [path \in Paths |->
                       IF applies(path, data)
                       THEN Sampled(appended, path, db[path], data, now)[path]
                       ELSE appended[path]]
    /\ scrapes' = scrapes + 1
    /\ call' = [op |-> "check", data |-> data, before |-> db]
    /\ UNCHANGED <<settings, now, cyc, chk, alertLog, outbox, rs,
                 scan, mgr, shutdown_requested, pool>>

InitPaths ==
    /\ \E row \in InitialProducts, n \in PriorUpdates :
           db = [path \in Paths |-> Repeat(row, 0, n)]
    /\ appended = [path \in Paths |-> db[path].price_history]
    /\ settings = Setting(FALSE, None, None, None, None, FALSE)
    /\ now = 0
    /\ cyc = IdleCycle
    /\ chk = [p \in Pids |-> "idle"]
    /\ alertLog = << >>
    /\ outbox = << >>
    /\ scrapes = 0
    /\ call = NoCall
    /\ rs = IdleScan
    /\ scan = NoScans
    /\ mgr = IdleManager
    /\ shutdown_requested = FALSE
    /\ pool = IdlePool

NextPaths ==
    \/ \E data \in PathResults : BothCheck(data)
    \/ \E d \in TickSteps : Tick(d)

SpecPaths == InitPaths /\ [][NextPaths]_vars

-----------------------------------------------------------------------------
(***************************************************************************)
(* Properties.                                                             *)
(***************************************************************************)
DropKinds == {"drop_new", "drop_used"}

\* The alerts run_cycle handed over: their condition was met with the
\* cooldown over.
Handed(e) == e.cooled

\* C1: in the scheduled cycle, a product whose last_checked was unset when
\* the cycle reached it gets no price-drop alert from that scrape.
C1_FirstScrapeNoDropAlert ==
    \A i \in DOMAIN alertLog :
        alertLog[i].baseline => alertLog[i].kinds \cap DropKinds = {}

\* C2: for a product whose last_checked is unset, should_alert_new and
\* should_alert_used return false whatever the price, the global overrides,
\* the per-item thresholds and the purchase / highest / previous prices.
C2_BaselineRule ==
    (call.op \in {"should_alert_new", "should_alert_used"}
        /\ db[call.pid].last_checked = None)
    => call.result = FALSE

\* A 40% drop from the purchase price against a 10% threshold, refused only
\* because there is no baseline.
C2_Witness ==
    /\ call.op = "should_alert_new"
    /\ db[call.pid].last_checked = None
    /\ db[call.pid].purchase_price = 50 /\ db[call.pid].alert_new_pct = 10
    /\ call.price = 30 /\ call.global_pct = None /\ call.global_dollars = None
    /\ call.result = FALSE

\* C3: once run_cycle has emitted an alert for a product at time T (sent it,
\* or collected it for the batched e-mail, stamping last_alert_sent), it
\* hands over no further alert for that product before T + 12 hours; the
\* stored last_alert_sent is the time of the last such alert.
LastStamp(p) ==
    LET S == {i \in DOMAIN alertLog : alertLog[i].pid = p /\ alertLog[i].stamped}
    IN  IF S = {} THEN None
        ELSE alertLog[CHOOSE i \in S : \A j \in S : j <= i].at

C3_Cooldown ==
    /\ \A i, j \in DOMAIN alertLog :
           (i < j /\ alertLog[i].pid = alertLog[j].pid
                  /\ alertLog[i].stamped /\ Handed(alertLog[j]))
           => alertLog[j].at >= alertLog[i].at + ALERT_COOLDOWN_HOURS
    /\ \A p \in Pids : db[p].last_alert_sent = LastStamp(p)

\* An alert was emitted, and a later scrape met an alert condition again
\* within the cooldown and was suppressed.
C3_Witness ==
    \E i, j \in DOMAIN alertLog :
        /\ i < j /\ alertLog[i].pid = alertLog[j].pid
        /\ alertLog[i].stamped
        /\ ~alertLog[j].cooled
        /\ alertLog[j].at > alertLog[i].at

\* C4 as stated: every alert condition found with the cooldown over stamps
\* last_alert_sent, in individual mode as in batched mode.
C4_AlwaysStamped ==
    \A i \in DOMAIN alertLog : alertLog[i].cooled => alertLog[i].stamped

\* C4 amended: an alert condition found with the cooldown over is handed to
\* the Notifier (in batched mode with the batched e-mail at the end of the
\* cycle); last_alert_sent is set to now in batched mode always, and in
\* individual mode if and only if send_alert_email reported success.
InBatchMail(e) ==
    \E k \in DOMAIN outbox :
        /\ outbox[k].at >= e.at
        /\ \E n \in DOMAIN outbox[k].pids : outbox[k].pids[n] = e.pid

C4_StampedWhenSent ==
    /\ \A i \in DOMAIN alertLog :
           LET e == alertLog[i]
           IN  /\ e.cooled =>
                     (e.stamped <=> (e.mode = "batch" \/ e.sent))
               /\ ~e.cooled => ~e.stamped /\ ~e.sent
               /\ (e.cooled /\ e.mode = "batch" /\ cyc.pc = "idle") => InBatchMail(e)
    /\ \A p \in Pids : db[p].last_alert_sent = LastStamp(p)
    /\ \A k \in DOMAIN outbox : outbox[k].pids # << >>

\* An alert handed over in individual mode whose delivery failed: not stamped.
C4_Witness ==
    \E i \in DOMAIN alertLog :
        /\ alertLog[i].cooled /\ alertLog[i].mode = "individual"
        /\ ~alertLog[i].sent /\ ~alertLog[i].stamped
        /\ db[alertLog[i].pid].last_alert_sent = None

\* C5: over any sequence of update_from_scrape calls, a lowest price that is
\* set never increases and a highest price that is set never decreases.
Widened(old, new) ==
    /\ Truthy(old.lowest_new_price) =>
           Truthy(new.lowest_new_price) /\ new.lowest_new_price <= old.lowest_new_price
    /\ Truthy(old.lowest_used_price) =>
           Truthy(new.lowest_used_price) /\ new.lowest_used_price <= old.lowest_used_price
    /\ Truthy(old.highest_new_price) =>
           Truthy(new.highest_new_price) /\ new.highest_new_price >= old.highest_new_price
    /\ Truthy(old.highest_used_price) =>
           Truthy(new.highest_used_price) /\ new.highest_used_price >= old.highest_used_price

C5_ExtremaMonotone == [][\A p \in Pids : Widened(db[p], db'[p])]_vars

\* A new product whose price went down and came back up in three updates:
\* the lowest stayed where it was.
C5_Witness ==
    \E p \in Pids :
        /\ Truthy(db[p].lowest_new_price)
        /\ db[p].lowest_new_price < db[p].current_new_price
        /\ db[p].prev_new_price < db[p].current_new_price
        /\ db[p].highest_new_price = db[p].current_new_price
        /\ call.op = "update_from_scrape" /\ call.result
        /\ scrapes = Len(appended[p])

\* C6: with the on-demand check and the scheduled cycle updating the same
\* product concurrently, the stored extrema lose no price either of them
\* applied: lowest <= every applied price <= highest.
C6_RaceLosesNoExtremum ==
    \A p \in Pids : \A i \in DOMAIN appended[p] :
        LET smp == appended[p][i]
        IN  /\ Truthy(smp.new) =>
                /\ Truthy(db[p].lowest_new_price) /\ db[p].lowest_new_price <= smp.new
                /\ Truthy(db[p].highest_new_price) /\ db[p].highest_new_price >= smp.new
            /\ Truthy(smp.used) =>
                /\ Truthy(db[p].lowest_used_price) /\ db[p].lowest_used_price <= smp.used
                /\ Truthy(db[p].highest_used_price) /\ db[p].highest_used_price >= smp.used

\* C7: the price history never holds more than MAX_PRICE_HISTORY samples;
\* once more have been appended it holds exactly the last MAX_PRICE_HISTORY
\* of them, in the order they were appended.
C7_HistoryBound ==
    \A p \in Pids :
        LET h == db[p].price_history
            a == appended[p]
        IN  /\ Len(h) <= MAX_PRICE_HISTORY
            /\ Len(a) <= MAX_PRICE_HISTORY => h = a
            /\ Len(a) > MAX_PRICE_HISTORY =>
                   /\ Len(h) = MAX_PRICE_HISTORY
                   /\ \A i \in 1..MAX_PRICE_HISTORY :
                          h[i] = a[Len(a) - MAX_PRICE_HISTORY + i]

\* More than MAX_PRICE_HISTORY + 1 samples appended, the last ones at a later
\* time than the first: the oldest have been evicted.
C7_Witness ==
    \E p \in Pids :
        /\ Len(appended[p]) > MAX_PRICE_HISTORY + 1
        /\ Len(db[p].price_history) = MAX_PRICE_HISTORY
        /\ db[p].price_history[MAX_PRICE_HISTORY].date > 0

\* C8: under either schema, a recall for which the brand gate fails scores at
\* most 15, whatever else of it matches the product, and so stays below the
\* score at which a match is accepted.
C8_BrandGateCap ==
    (/\ call.op = "score_recall_match"
     /\ ~brand_found(call.product_title, call.recall_data, call.source))
    => /\ call.result <= 15
       /\ ~accepted(call.recall_data, call.result, MIN_SCORE)

\* A recall that names no Weber, with a product of two overlapping words and
\* the model code, an overlapping title, Amazon as retailer and a UPC of the
\* product title: 15.
C8_Witness ==
    /\ call.op = "score_recall_match"
    /\ call.source = "cpsc"
    /\ call.product_title = WeberGenesis
    /\ ~brand_found(call.product_title, call.recall_data, call.source)
    /\ best_product_score(call.product_title, call.recall_data) = 49
    /\ title_overlap_score(call.product_title, call.recall_data) > 0
    /\ retailer_bonus(call.recall_data) > 0
    /\ upc_match(call.product_title, call.recall_data)
    /\ call.result = 15

\* The brand gate holds and the product-type gate does not.
BrandOnly(product_title, recall_data, source) ==
    /\ brand_found(product_title, recall_data, source)
    /\ ~product_type_match(product_title, recall_data, source)

\* C9: a recall whose brand matches but whose product-type gate never
\* activates scores at most 30, below 55, and the scan never returns it as
\* the match.
C9_TypeGateCap ==
    /\ \A i \in DOMAIN rs.scored :
         BrandOnly(rs.title, rs.scored[i].recall, rs.scored[i].source)
            => rs.scored[i].score <= 30 /\ rs.scored[i].score < 55
    /\ rs.result # NoRecall => ~BrandOnly(rs.title, rs.result, rs.source)

\* "Weber Genesis II Gas Grill E-335" against "Weber Spirit Grill Model E-210":
\* scored 30 on the last CPSC query, and the scan went on to openFDA.
C9_Witness ==
    /\ rs.pc = "fda"
    /\ rs.title = WeberGenesis
    /\ rs.issued # << >>
    /\ rs.scored = << [recall |-> CpscRecall(<<SpiritGrill>>, << >>, << >>, << >>, << >>),
                       source |-> "cpsc", score |-> 30] >>
    /\ BrandOnly(rs.title, rs.scored[1].recall, "cpsc")
    /\ rs.result = NoRecall

\* C10: in the scan of one product, once a recall has scored 85 or more, no
\* further request goes to either source.
C10_ShortCircuit ==
    [][(rs.high_seen /\ rs.pc \in {"cpsc", "fda"}) => rs'.issued = rs.issued]_vars

\* The first of three CPSC queries returned a recall scoring 85 or more: the
\* scan ended with that match after this one request.
C10_Witness ==
    /\ rs.pc = "done"
    /\ rs.high_seen
    /\ Len(rs.keywords) = 3
    /\ Len(rs.issued) = 1
    /\ rs.source = "cpsc"
    /\ rs.result # NoRecall

\* The requests of a scan that went to openFDA.
FdaIssued == {i \in DOMAIN rs.issued : rs.issued[i].source = "fda"}

\* The primary result of a scan that ended with a CPSC match: a recall that
\* CPSC returned and that scores at least 55.
PrimaryResult ==
    /\ rs.source = "cpsc"
    /\ rs.result \in CpscSample
    /\ ScoreTable[<<rs.title, rs.result>>] >= MIN_SCORE

\* C11 as stated: openFDA is queried for a product if and only if no CPSC
\* recall scored 55 or more for it; with such a recall, no openFDA request is
\* issued and the CPSC match is the result.
C11_FallbackIff ==
    /\ FdaIssued # {} => rs.cpsc_seen < MIN_SCORE
    /\ rs.pc = "done" =>
          /\ FdaIssued # {} <=> rs.cpsc_seen < MIN_SCORE
          /\ rs.cpsc_seen >= MIN_SCORE => PrimaryResult

\* C11, amended: the same, for a product whose title yields at least one
\* query; a title that yields none is sent to neither source.
C11_FallbackIffQueried ==
    /\ FdaIssued # {} => rs.cpsc_seen < MIN_SCORE
    /\ rs.pc = "done" =>
          /\ FdaIssued # {} <=> (rs.cpsc_seen < MIN_SCORE /\ rs.keywords # << >>)
          /\ rs.cpsc_seen >= MIN_SCORE => PrimaryResult
          /\ rs.keywords = << >> => rs.issued = << >> /\ rs.result = NoRecall

\* CPSC returned a recall scoring between 55 and 84 on the last of three
\* queries: the scan ended with it and sent nothing to openFDA.
C11_Witness ==
    /\ rs.pc = "done"
    /\ Len(rs.keywords) = 3 /\ Len(rs.issued) = 3
    /\ rs.cpsc_seen >= MIN_SCORE /\ rs.cpsc_seen < STRONG_SCORE
    /\ FdaIssued = {}
    /\ PrimaryResult

\* The queries of given weights among those the extractor produced.
QueriesOfWeight(weights) ==
    {rs.keywords[k].query : k \in {j \in DOMAIN rs.keywords :
                                      rs.keywords[j].weight \in weights}}

\* C12: when the extractor produced its three queries, the requests to openFDA
\* are for the queries of weight 3 and weight 2 only, and a fallback that has
\* run to its end has sent each of them to each of the three endpoints.
C12_FallbackTopTwo ==
    Len(rs.keywords) = 3 =>
    /\ \A i \in FdaIssued : rs.issued[i].query \in QueriesOfWeight({3, 2})
    /\ (rs.pc = "done" /\ FdaIssued # {}) =>
          \A q \in QueriesOfWeight({3, 2}) :
              \A e \in DOMAIN fda_endpoints :
                  \E i \in FdaIssued : /\ rs.issued[i].query = q
                                       /\ rs.issued[i].endpoint = fda_endpoints[e]


\* The recall columns of a row, with its status and last_recall_check.
RecallState(row) ==
    [f \in RecallColumns \cup {"recall_status", "last_recall_check"} |-> row[f]]

ScanStarts == call'.op = "api_scan_recalls" /\ call'.step = "start"
ScanFinishes == call'.op = "api_scan_recalls" /\ call'.step = "finish"
Dismisses(p) == call'.op = "api_dismiss_recall" /\ call'.pid = p

\* C13: a product stored as matched or dismissed is not handed to a scan
\* that starts, and a scan that finishes changes none of its recall columns,
\* its status or its last_recall_check.
C13_SettledUntouched ==
    [][/\ ScanStarts =>
            \A p \in scan'[call'.request].to_check :
                db[p].recall_status \notin {"matched", "dismissed"}
       /\ ScanFinishes =>
            \A p \in Prods :
                db[p].recall_status \in {"matched", "dismissed"}
                    => RecallState(db'[p]) = RecallState(db[p])]_vars

\* C14: the status of a product changes only from none to matched by a scan,
\* from matched to dismissed by a dismissal, which keeps the recall columns,
\* and from dismissed to none by a re-check, which clears the recall columns
\* and last_recall_check.
C14_StatusMachine ==
    [][\A p \in Prods :
          db'[p].recall_status # db[p].recall_status =>
              \/ /\ db[p].recall_status = "none"
                 /\ db'[p].recall_status = "matched"
                 /\ ScanFinishes
              \/ /\ db[p].recall_status = "matched"
                 /\ db'[p].recall_status = "dismissed"
                 /\ Dismisses(p)
                 /\ \A c \in RecallColumns : db'[p][c] = db[p][c]
              \/ /\ db[p].recall_status = "dismissed"
                 /\ db'[p].recall_status = "none"
                 /\ Dismisses(p)
                 /\ \A c \in RecallColumns \cup {"last_recall_check"} :
                        db'[p][c] = None]_vars

\* The products a finishing scan checked, and its results.
Checked == scan[call'.request].to_check
Results == call'.results

CadenceElapsed ==
    \/ settings.recall_scan_frequency = "every_check"
    \/ settings.last_recall_scan = None
    \/ settings.recall_scan_frequency = "daily" /\ now - settings.last_recall_scan > 24
    \/ settings.recall_scan_frequency = "weekly" /\ now - settings.last_recall_scan > 168

CycleStarts == mgr'.cycles > mgr.cycles

\* C16: in a cycle with recall scanning enabled and its cadence elapsed, the
\* scan covers every product whose recall status is none, archived or
\* active; in any other cycle no recall query is issued.
C16_ScanCoversAll ==
    [][CycleStarts =>
          IF settings.recall_scan_enabled /\ CadenceElapsed
          THEN mgr'.to_check = {p \in Prods : db[p].recall_status = "none"}
          ELSE mgr'.pc # "scanning" /\ mgr'.to_check = {}]_vars

\* The step of the cycle that archives and queries the products to check.
ArchiveStep == mgr.pc = "archive" /\ mgr'.pc # "archive"

ScrapeStarts == mgr.pc = "loop" /\ mgr'.pc = "scraping"

\* The products whose expiry has passed and that are not archived yet.
Overdue ==
    {p \in Prods : ~db[p].is_archived /\ db[p].expires_at # None
                   /\ db[p].expires_at < now}

\* The row of p as the session has it after the step, or as it is stored.
RowAfter(p) == IF p \in DOMAIN mgr'.obj THEN mgr'.obj[p] ELSE db'[p]

\* C17: with auto-archive on, the cycle archives every non-archived product
\* whose expiry has passed before the price checks start; the price checks
\* take exactly the products that are active and not archived then, so that
\* a product archived in this cycle or before is never scraped; and the
\* archiving is stored by the time the cycle ends.
C17_ArchiveBeforeChecks ==
    [][/\ ArchiveStep =>
            /\ settings.auto_archive =>
                  \A p \in Overdue : /\ RowAfter(p).is_archived
                                     /\ RowAfter(p).archived_at = now
            /\ mgr'.queue =
                  SortedSeq({p \in Prods : /\ db[p].is_active /\ ~db[p].is_archived
                                           /\ ~(settings.auto_archive /\ p \in Overdue)})
       /\ ScrapeStarts =>
            /\ Head(mgr.queue) \notin mgr.archived
            /\ ~db[Head(mgr.queue)].is_archived
       /\ mgr'.pc = "sleep" => \A p \in mgr'.archived : db'[p].is_archived]_vars

\* A cycle has archived one product and scraped another.
C17_Witness ==
    /\ mgr.archived # {} /\ mgr.attempted # << >>
    /\ \A p \in mgr.archived : \A i \in DOMAIN mgr.attempted : mgr.attempted[i] # p

\* The product the loop is at, or was at last.
Current == mgr.attempted[Len(mgr.attempted)]

\* The loop has handled a product without a failure.
Handled == mgr.pc = "scraping" /\ mgr'.pc = "loop" /\ mgr'.failed = mgr.failed

\* C18: in the scheduled cycle a failed product (an error result, or an
\* exception in the scrape, the update, the alert evaluation or the
\* notification) keeps no later product from being scraped, updated and
\* evaluated: the products the cycle has still to scrape are those of its
\* query that it has not scraped yet, whatever failed; a cycle that is not
\* cancelled ends only when it has scraped them all; and a product handled
\* after a failure is updated and stored.
C18_FailureIsolated ==
    [][/\ mgr'.pc \in {"loop", "scraping"} =>
            mgr'.attempted \o mgr'.queue = SortedSeq(mgr'.products)
       /\ (mgr.pc = "loop" /\ mgr'.pc = "sleep" /\ ~shutdown_requested) =>
            mgr.attempted = SortedSeq(mgr.products)
       /\ (Handled /\ mgr.failed # {}) =>
            /\ db'[Current].last_checked = now
            /\ mgr'.queue = mgr.queue]_vars

\* A product has failed and a later one of the same cycle was updated.
C18_Witness ==
    /\ mgr.pc = "loop" /\ mgr.failed # {}
    /\ Len(mgr.attempted) = 2
    /\ mgr.attempted[1] \in mgr.failed /\ mgr.attempted[2] \notin mgr.failed
    /\ db[mgr.attempted[2]].last_checked = now

\* C19: a product's update in the scheduled cycle is a transaction of its
\* own, committed or rolled back as a whole: once the processing of a
\* product has failed in a cycle, no later step of that cycle stores a
\* change to its row.
C19_AtomicUpdates ==
    [][\A p \in mgr.failed : db'[p] = db[p]]_vars

\* C20: once the cancellation flag is set the manager starts no further
\* scrape and no new cycle, and, every call in flight returning, the
\* manager loop terminates.
C20_Cancellation ==
    /\ [][shutdown_requested => ~ScrapeStarts /\ ~CycleStarts]_vars
    /\ shutdown_requested ~> mgr.pc = "stopped"

\* The loop was cancelled between two products, and the manager has stopped.
C20_Witness ==
    /\ shutdown_requested /\ mgr.pc = "stopped"
    /\ mgr.attempted # << >> /\ mgr.queue # << >>

ManagerWaits == call'.op = "manager_loop"

\* C21: the wait before the next cycle lies within 45 minutes of the
\* interval stored in the settings at that moment, in whole seconds, and
\* is positive; the stored interval is at least 60 minutes.
C21_WaitWindow ==
    [][/\ settings'.check_interval_minutes >= 60
       /\ ManagerWaits =>
            /\ call'.wait >= settings.check_interval_minutes * 60 - 45 * 60
            /\ call'.wait <= settings.check_interval_minutes * 60 + 45 * 60
            /\ call'.wait > 0]_vars

\* The shortest interval the form stores, with the largest negative jitter.
C21_Witness ==
    /\ call.op = "manager_loop"
    /\ settings.check_interval_minutes = 60
    /\ call.wait = 15 * 60

\* C22: at most two scrapes submitted by on-demand checks are executing at
\* any time, those whose requester has already been told of a timeout
\* included; a further submission waits in the queue for a free worker.
C22_TwoSlots ==
    /\ Cardinality(pool.running) <= 2
    /\ \A i \in DOMAIN pool.queue : pool.queue[i] \notin pool.running

\* Two scrapes run, one of them for a request that has timed out, and a
\* third submission waits.
C22_Witness ==
    /\ Cardinality(pool.running) = 2
    /\ pool.queue # << >>
    /\ \E r \in pool.running : chk[r].response.error = timeout_message

\* Request r gets its response in this step.
Responds(r) == chk[r].pc = "waiting" /\ chk'[r].pc = "done"

\* C23: an on-demand check whose scrape result is not there within 90
\* seconds returns the 'timed out' failure, which no failed scrape returns,
\* and leaves the product unchanged; the result that arrives later is never
\* applied: only a request that still waits changes the product.
C23_TimeoutOutcome ==
    [][/\ \A r \in Checks :
            /\ chk[r].pc = "waiting" => chk[r].waited <= 90
            /\ Responds(r) =>
                  IF r \in DOMAIN pool.result
                  THEN chk'[r].response.error # "Timeout after 90s"
                  ELSE /\ chk[r].waited >= 90
                       /\ chk'[r].response = [success |-> FALSE,
                                              error |-> "Timeout after 90s"]
                       /\ db' = db
            /\ chk[r].pc = "done" => chk'[r] = chk[r]
       /\ db' # db => \E r \in Checks : Responds(r) /\ chk'[r].response.success]_vars

\* A request has timed out, its scrape has since returned prices, and the
\* product is as it was.
C23_Witness ==
    \E r \in Checks :
        /\ chk[r].response.error = timeout_message
        /\ r \in DOMAIN pool.result
        /\ ~scrape_failed(pool.result[r])
        /\ db[CheckedPid].last_checked = None

Evaluates == call'.op = "run_cycle_alerts"

\* The row with other per-item thresholds.
WithThresholds(row, t) ==
    [row EXCEPT !.alert_new_pct = t[1], !.alert_new_dollars = t[2],
                !.alert_used_pct = t[3], !.alert_used_dollars = t[4]]

\* The drop alerts of the cycle for a row and a scrape.
DropDecision(row, data) ==
    Alerts(update_from_scrape(row, data, now), data, global_thresholds(settings))
        \cap DropKinds

\* C24: with global alerts enabled the per-item thresholds have no influence
\* on the drop alerts: the product gets the decision it would get with any
\* other per-item thresholds, also when some global thresholds are unset.
C24_GlobalOverridesItem ==
    [][(Evaluates /\ settings.global_alerts_enabled) =>
          \A t \in {None, 10} \X {None, 5} \X {None, 10} \X {None, 5} :
              DropDecision(WithThresholds(db[call'.pid], t), call'.data)
                  = call'.alerts \cap DropKinds]_vars

ThresholdCall == call.op \in {"should_alert_new", "should_alert_used"}

CalledRow == db[call.pid]

\* The reference price of the call: for the new price the purchase price if
\* set, else the highest new price, else the previous new price; for the
\* used price the highest used price if set, else the purchase price, else
\* the previous used price.  A price that is NULL or 0 is not set.
IsSet(x) == x # None /\ x # 0

Reference ==
    IF call.op = "should_alert_new"
    THEN IF IsSet(CalledRow.purchase_price) THEN CalledRow.purchase_price
         ELSE IF IsSet(CalledRow.highest_new_price) THEN CalledRow.highest_new_price
         ELSE CalledRow.prev_new_price
    ELSE IF IsSet(CalledRow.highest_used_price) THEN CalledRow.highest_used_price
         ELSE IF IsSet(CalledRow.purchase_price) THEN CalledRow.purchase_price
         ELSE CalledRow.prev_used_price

\* The effective thresholds of the call: the global one if given, else the
\* per-item one.
EffectivePct ==
    IF call.global_pct # None THEN call.global_pct
    ELSE IF call.op = "should_alert_new" THEN CalledRow.alert_new_pct
    ELSE CalledRow.alert_used_pct

EffectiveDollars ==
    IF call.global_dollars # None THEN call.global_dollars
    ELSE IF call.op = "should_alert_new" THEN CalledRow.alert_new_dollars
    ELSE CalledRow.alert_used_dollars

\* A call with an established baseline, a price and a positive reference.
Comparable ==
    /\ ThresholdCall
    /\ CalledRow.last_checked # None
    /\ IsSet(call.price)
    /\ IsSet(Reference) /\ Reference > 0

PctMet == (Reference - call.price) * 100 >= EffectivePct * Reference

DollarsMet == Reference - call.price >= EffectiveDollars

UpdateStep(p) == call'.op = "update_from_scrape" /\ call'.pid = p /\ call' # call

\* The scraped title is accepted: present, and the stored title a
\* placeholder or different from it.
AcceptsTitle(row, data) ==
    data.title # NoTitle /\ (row.title = "Loading" \/ row.title # data.title)

CarriesNothing(row, data) ==
    /\ data.new_price \in {None, 0}
    /\ data.used_price \in {None, 0}
    /\ data.screenshot_main \in {None, 0}
    /\ ~AcceptsTitle(row, data)

\* C28: update_from_scrape with a result that carries no new price, no used
\* price, no accepted title and no screenshot leaves every field of the
\* product unchanged, last_checked and the price history included, and
\* returns False; last_checked is stamped only by an update that changed at
\* least one other field.
C28_NoDataNoChange ==
    [][\A p \in Pids :
          /\ (UpdateStep(p) /\ CarriesNothing(db[p], call'.data)) =>
                 /\ db'[p] = db[p]
                 /\ appended'[p] = appended[p]
                 /\ ~call'.result
          /\ (UpdateStep(p) /\ db'[p].last_checked # db[p].last_checked) =>
                 /\ call'.result
                 /\ [db'[p] EXCEPT !.last_checked = db[p].last_checked] # db[p]
      ]_vars

\* A product checked earlier receives a result holding only the title it
\* already has, at a later time: the call returned False and the row kept
\* its earlier last_checked.
C28_Witness ==
    \E p \in Pids :
        /\ call.op = "update_from_scrape" /\ call.pid = p
        /\ call.data.title = db[p].title /\ ~call.result
        /\ db[p].last_checked # None /\ db[p].last_checked < now
        /\ Len(appended[p]) > 0

NoTwoWithSameAsin ==
    \A i \in DOMAIN db : \A j \in DOMAIN db : db[i].asin = db[j].asin => i = j

ItemStep(h) ==
    /\ chk[h].pc = "loop" /\ chk'[h].pc = "loop"
    /\ Len(chk'[h].items) = Len(chk[h].items) - 1

CommitStep(h) == call' # call /\ call'.op = h /\ call'.step = "commit"

\* C29: no two products have the same asin; no step changes the asin of an
\* existing product or removes it; a handler that comes to an asin which a
\* committed product has adds no product for it: it restores that product
\* if it is archived and does nothing otherwise, and its commit leaves the
\* products it restored unarchived and adds no product for an asin already
\* in the table.
C29_AsinUnique ==
    /\ []NoTwoWithSameAsin
    /\ [][/\ \A pid \in DOMAIN db :
                 pid \in DOMAIN db' /\ db'[pid].asin = db[pid].asin
          /\ \A pid \in DOMAIN db' \ DOMAIN db :
                 db'[pid].asin \notin asins_of(db)
          /\ \A h \in Handlers :
               /\ (ItemStep(h) /\ Head(chk[h].items) \in asins_of(db)) =>
                     LET pid == CHOOSE q \in DOMAIN db : db[q].asin = Head(chk[h].items)
                         had == chk[h].dirty \cup chk[h].restored
                     IN  /\ chk'[h].new = << >>
                         /\ chk'[h].own = chk[h].own \o
                                [i \in DOMAIN chk[h].new |-> TrackedRow(chk[h].new[i], FALSE)]
                         /\ chk'[h].dirty \cup chk'[h].restored =
                                IF db[pid].is_archived THEN had \cup {pid} ELSE had
               /\ CommitStep(h) =>
                     \A pid \in chk[h].dirty \cup chk[h].restored :
                         ~db'[pid].is_archived
         ]_vars

\* Two handlers added the same asin at the same time and one of them lost
\* at the unique constraint, the table holding both asins once each, the
\* first product restored from the archive.
C29_Witness ==
    /\ call.op \in Handlers
    /\ call.step = "failed" /\ call.why = "IntegrityError"
    /\ Len(db) = 2 /\ db[1].asin # db[2].asin
    /\ ~db[1].is_archived
    /\ \A h \in Handlers : chk[h].pc = "idle"

\* The requests a scan of the product issues when none is cut short: every
\* query to CPSC and the first two to each openFDA endpoint.
AllRequests == Len(rs.keywords) + Len(fda_endpoints) * Len(FirstN(rs.keywords, 2))

RequestFails == rs'.failed = rs.failed + 1

\* C30: a request of the recall scan that fails (an exception, or a status
\* other than 200, the 404 of openFDA included) ends neither source's loop:
\* the scan goes on with the next query or endpoint, its best match as it
\* was; a product all of whose requests failed has had every request issued
\* and ends with no match, and the scan goes on to the next product.
C30_ErrorsIsolated ==
    /\ [][RequestFails =>
              /\ rs'.pc = rs.pc
              /\ Len(rs'.issued) = Len(rs.issued) + 1
              /\ rs'.best_match = rs.best_match /\ rs'.best_score = rs.best_score
              /\ IF rs.pc = "cpsc"
                 THEN rs'.qi = rs.qi + 1
                 ELSE IF rs.ei < Len(fda_endpoints)
                      THEN rs'.qi = rs.qi /\ rs'.ei = rs.ei + 1
                      ELSE rs'.qi = rs.qi + 1 /\ rs'.ei = 1
         ]_vars
    /\ [](rs.failed > 0 => rs.pc # "idle")
    /\ []((rs.pc = "done" /\ rs.failed > 0 /\ rs.failed = Len(rs.issued)) =>
              /\ Len(rs.issued) = AllRequests
              /\ rs.result = NoRecall /\ rs.source = "none"
              /\ ENABLED (\E t \in to_check : ScanProduct(t)))

\* A product with three queries, all nine of its requests failed: no match.
C30_Witness ==
    /\ rs.pc = "done" /\ Len(rs.keywords) = 3
    /\ rs.failed = 9 /\ Len(rs.issued) = 9
    /\ rs.result = NoRecall

RequestStep == Len(rs'.issued) = Len(rs.issued) + 1

\* The candidate as the loop keeps it: an openFDA result is marked with the
\* endpoint it came from.
Kept(candidate, endpoint) ==
    IF candidate.source = "fda"
    THEN ("_fda_endpoint" :> endpoint) @@ candidate.recall
    ELSE candidate.recall

\* C31: on every response, the best match is replaced only by a candidate
\* scoring strictly higher than it, and then by the earliest of the highest
\* scoring candidates of the response; otherwise it stays.  So the best
\* score is the highest of all those scored in the source, and it is the
\* score of the match returned.
C31_BestIsFirstMaximal ==
    /\ [][RequestStep =>
            LET S    == rs'.scored
                top  == MaxOf({rs.best_score} \cup {S[i].score : i \in DOMAIN S})
                k    == CHOOSE i \in DOMAIN S :
                            /\ S[i].score = top
                            /\ \A j \in 1 .. (i - 1) : S[j].score < top
            IN  /\ rs'.best_score = top
                /\ IF top = rs.best_score
                   THEN rs'.best_match = rs.best_match
                   ELSE rs'.best_match = Kept(S[k], fda_endpoints[rs.ei])
         ]_vars
    /\ [](rs.pc = "cpsc" => rs.best_score = rs.cpsc_seen)
    /\ [](rs.pc = "fda" => rs.best_score = rs.fda_seen)
    /\ []((rs.pc = "done" /\ rs.result # NoRecall) =>
              /\ rs.result = rs.best_match
              /\ rs.best_score = IF rs.source = "cpsc" THEN rs.cpsc_seen
                                 ELSE rs.fda_seen)

\* The second openFDA endpoint answered with a candidate of the score of the
\* best match, which the first endpoint had given: the best match stayed.
C31_Witness ==
    /\ rs.pc = "fda" /\ rs.ei = 3
    /\ rs.best_match # NoRecall /\ rs.best_match["_fda_endpoint"] = "food"
    /\ rs.scored # << >>
    /\ rs.scored[1].score = rs.best_score

\* One of the recall's UPCs is not blank and occurs in the product title.
UpcInTitle ==
    \E i \in DOMAIN Get(call.recall_data, "ProductUPCs", << >>) :
        LET upc == Get(Get(call.recall_data, "ProductUPCs", << >>)[i], "UPC", << >>)
        IN  upc # << >> /\ Occurs(upc, call.product_title, FALSE)

\* What the other signals of the CPSC schema add up to.
OtherSignals ==
    30 + best_product_score(call.product_title, call.recall_data)
       + title_overlap_score(call.product_title, call.recall_data)
       + retailer_bonus(call.recall_data)

\* C32: a CPSC recall one of whose UPCs occurs in the product title, with
\* the brand gate and the product-type gate both passed, scores exactly 100.
C32_UpcOverrides ==
    (/\ call.op = "score_recall_match" /\ call.source = "cpsc"
     /\ call.product_title # << >> /\ call.recall_data # NoRecall
     /\ UpcInTitle
     /\ brand_found(call.product_title, call.recall_data, "cpsc")
     /\ product_type_match(call.product_title, call.recall_data, "cpsc"))
    => call.result = 100

\* Brand and product type match, the other signals add up to less than 100,
\* and the UPC of the recall is in the title: 100.
C32_Witness ==
    /\ call.op = "score_recall_match" /\ call.source = "cpsc"
    /\ call.product_title = WeberGenesis /\ call.recall_data # NoRecall
    /\ UpcInTitle
    /\ brand_found(call.product_title, call.recall_data, "cpsc")
    /\ product_type_match(call.product_title, call.recall_data, "cpsc")
    /\ OtherSignals < 100
    /\ call.result = 100

\* C33: no step takes a product from dismissed or matched to matched, other
\* than by leaving a matched product as it is: a scan that finishes writes
\* no match over a status the product acquired while the scan was running.
C33_NoRematch ==
    [][\A p \in Prods :
          (/\ db[p].recall_status \in {"matched", "dismissed"}
           /\ db'[p].recall_status = "matched")
          => RecallState(db'[p]) = RecallState(db[p])]_vars

Recorded(x) == x # None /\ x # 0

Between(lowest, current, highest) ==
    Recorded(current) =>
        /\ Recorded(lowest) /\ Recorded(highest)
        /\ lowest <= current /\ current <= highest

\* prev after an update that carried the price: the current price held
\* before it, or the price itself on the first update.
Shifted(before, price, prev) ==
    prev = IF Recorded(before) THEN before ELSE price

\* C34: for each price type with a recorded price, lowest <= current <=
\* highest; an update that carries a price of the type leaves as previous
\* price the current price held before it (the new price itself on the first
\* update), and an update that carries none leaves the previous and the
\* current price of the type as they were.
C34_PriceOrder ==
    /\ [](\A p \in Pids :
            /\ Between(db[p].lowest_new_price, db[p].current_new_price,
                       db[p].highest_new_price)
            /\ Between(db[p].lowest_used_price, db[p].current_used_price,
                       db[p].highest_used_price))
    /\ [][\A p \in Pids : UpdateStep(p) =>
            /\ IF Recorded(call'.data.new_price)
               THEN /\ db'[p].current_new_price = call'.data.new_price
                    /\ Shifted(db[p].current_new_price, call'.data.new_price,
                               db'[p].prev_new_price)
               ELSE /\ db'[p].current_new_price = db[p].current_new_price
                    /\ db'[p].prev_new_price = db[p].prev_new_price
            /\ IF Recorded(call'.data.used_price)
               THEN /\ db'[p].current_used_price = call'.data.used_price
                    /\ Shifted(db[p].current_used_price, call'.data.used_price,
                               db'[p].prev_used_price)
               ELSE /\ db'[p].current_used_price = db[p].current_used_price
                    /\ db'[p].prev_used_price = db[p].prev_used_price
         ]_vars

\* The new price went from 40 to 30 and a later update carried only a used
\* price: previous 40, current 30 = lowest, highest 40.
C34_Witness ==
    \E p \in Pids :
        /\ call.op = "update_from_scrape" /\ call.pid = p
        /\ call.data.new_price = None /\ call.data.used_price = 45
        /\ db[p].prev_new_price = 40 /\ db[p].current_new_price = 30
        /\ db[p].lowest_new_price = 30 /\ db[p].highest_new_price = 40
        /\ db[p].prev_used_price = 45 /\ db[p].current_used_price = 45

\* C35: a product has archived_at set if and only if it is archived.
C35_ArchivedAtIffArchived ==
    \A pid \in DOMAIN db : (db[pid].archived_at # None) <=> db[pid].is_archived

\* A product was archived when its time had passed and restored on a later
\* day: it is not archived and has no archived_at.
C35_Witness ==
    /\ call.op \in {"restore_product", "add_product", "import"}
    /\ call.pid \in DOMAIN db /\ call.at = now /\ now >= 2 * Day
    /\ ~db[call.pid].is_archived /\ db[call.pid].archived_at = None
    /\ db[call.pid].expires_at # None /\ db[call.pid].expires_at < now

Restores(pid) ==
    /\ call' # call
    /\ call'.op \in {"restore_product", "add_product", "import"}
    /\ call'.pid = pid
    /\ pid \in DOMAIN db /\ db[pid].is_archived /\ ~db'[pid].is_archived

\* C39: a product restored from the archive, by restore_product, by adding
\* it again or by the import of a new order, has no expires_at or one in the
\* future, so that the auto-archive step of the next cycle leaves it alone.
C39_RestoredNotOverdue ==
    [][\A pid \in DOMAIN db :
          Restores(pid) =>
              \/ db'[pid].expires_at = None
              \/ db'[pid].expires_at > now]_vars

\* The batched e-mail an alert was collected for: the first one handed to
\* the Notifier at or after the alert.
MailOf(e) ==
    LET S == {k \in DOMAIN outbox :
                 /\ outbox[k].at >= e.at
                 /\ \E n \in DOMAIN outbox[k].pids : outbox[k].pids[n] = e.pid}
    IN  IF S = {} THEN 0 ELSE CHOOSE k \in S : \A j \in S : k <= j

\* C37: an alert whose delivery failed, by its own e-mail in individual mode
\* or with the batched e-mail in batched mode, has not stamped
\* last_alert_sent.
C37_FailedKeepsCooldown ==
    \A i \in DOMAIN alertLog :
        LET e == alertLog[i]
        IN  /\ (e.cooled /\ e.mode = "individual" /\ ~e.sent) => ~e.stamped
            /\ (e.cooled /\ e.mode = "batch" /\ MailOf(e) # 0
                  /\ ~outbox[MailOf(e)].sent) => ~e.stamped


\* C38: the scheduled cycle and the on-demand check apply the same update
\* for the same scrape result: whenever both start from the same product
\* state, the prices, extrema, history and last_checked they leave are the
\* same, also for a result that carries both an error and a price.
C38_SameUpdate ==
    [][ (call'.op = "check" /\ scrapes' = scrapes + 1
           /\ db["run_cycle"] = db["api_check"]
           /\ appended["run_cycle"] = appended["api_check"])
        => /\ db'["run_cycle"] = db'["api_check"]
           /\ appended'["run_cycle"] = appended'["api_check"] ]_vars


FdaCall == call.op = "score_recall_match" /\ call.source = "fda"

FdaFallbackComplete ==
    (rs.pc = "done" /\ rs.source # "cpsc")
        => Cardinality({i \in DOMAIN rs.issued : rs.issued[i].source = "fda"})
             = Len(fda_endpoints) * Len(FirstN(rs.keywords, 2))

=============================================================================
